---- MODULE Spec2Model ----
(***************************************************************************)
(* Tool abstraction layer of oh-my-claude-rtl: the category managers       *)
(* (LintManager, SimulationManager, SynthesisManager), their selection of  *)
(* an installed adapter, and the lint adapters' output parsers.            *)
(*                                                                         *)
(* The three managers share the code of register / setPreferred /          *)
(* detectInstalledTools / selectTool line for line; the model holds one    *)
(* manager instance whose category is fixed at construction.               *)
(***************************************************************************)
EXTENDS Integers, Sequences, FiniteSets, TLC

\* ------------------------------------------------------------------ values

\* Names adapters are registered under (opaque keys of the registry Map).
Names == {"verilator", "verible", "slang"}

\* The adapter instance a factory constructs for each name
\* (manager.register('verilator', new VerilatorLint()), ...).
AdapterOf(name) == "new:" \o name

Adapters == {AdapterOf(n) : n \in Names}

\* JavaScript's undefined (an optional argument left out, an unset field).
Undefined == "undefined"

\* The value selectTool returns when nothing is installed.
Null == "null"

Categories == {"lint", "simulation", "synthesis"}

\* What awaiting adapter.isInstalled() can do: resolve true, resolve false,
\* or reject (the interface only promises Promise<boolean>).
ProbeOutcomes == {"installed", "absent", "throws"}

\* The optional override argument of lint / simulate / synthesize:
\* left out, the empty string, or some name.
Overrides == Names \cup {Undefined, ""}

\* JavaScript truthiness of an optional string.
Truthy(s) == s # Undefined /\ s # ""

VARIABLES
    category,       \* which manager class this instance is
    tools,          \* this.tools: Map in insertion order, <<[name, tool]>>
    preferredTool,  \* this.preferredTool
    installed,      \* environment: what each adapter's isInstalled() does now
    calls,          \* category methods the last operation invoked on adapters
    result,         \* outcome of the last operation: returned value or throw
    adapter,        \* the lint adapter class whose lint() is being followed
    proc,           \* the child process its run() spawned: status and output
    observed,       \* an earlier selectTool execution: its inputs and outcome
    executable,     \* this.executable of each simulation adapter instance
    disk,           \* working directory: which compile wrote the file at a path
    pair,           \* each compile+simulate pair: where it is, what it ran
    lspEnv,         \* environment: what creating / probing each server does
    client,         \* the LSPClient createLSPClient returned
    ralph,          \* the Ralph loop state file, as readRalphState reads it
    ultrawork,      \* the ultrawork state file, as readUltraworkState reads it
    todos,          \* how many todos are incomplete (checkIncompleteTodos().count)
    checks,         \* what the mode checks of the last Stop event returned
    loop            \* the running Ralph loop: where it began, how often it blocked

vars == <<category, tools, preferredTool, installed, calls, result, adapter, proc,
          observed, executable, disk, pair, lspEnv, client,
          ralph, ultrawork, todos, checks, loop>>

\* The state of a manager instance and of the adapter under observation.
managerVars == <<category, tools, preferredTool, installed, calls>>
adapterVars == <<adapter, proc>>

\* The simulation adapter instances with their working directory, and the
\* language-server selector with the client it created.
simVars == <<executable, disk, pair>>
lspVars == <<lspEnv, client>>

\* The persistent-mode hook: the state files it reads and what it did last.
hookVars == <<ralph, ultrawork, todos, checks, loop>>

\* What a manager operation leaves alone, and what a lint adapter does.
outsideManager == <<adapterVars, observed, simVars, lspVars, hookVars>>
outsideAdapter == <<observed, simVars, lspVars, hookVars>>

\* ---------------------------------------------------------------- registry

\* Map.has
Has(reg, name) == \E i \in DOMAIN reg : reg[i].name = name

\* Map.get (of a present key)
Get(reg, name) == reg[CHOOSE i \in DOMAIN reg : reg[i].name = name].tool

\* Map.set: a present key keeps its position and gets the new value; a new
\* key is appended.
MapSet(reg, name, tool) ==
    IF Has(reg, name)
    THEN [i \in DOMAIN reg |->
            IF reg[i].name = name THEN [name |-> name, tool |-> tool] ELSE reg[i]]
    ELSE Append(reg, [name |-> name, tool |-> tool])

\* Array.from(this.tools.keys())
Keys(reg) == [i \in DOMAIN reg |-> reg[i].name]

\* --------------------------------------------------------------- selection

\* Outcome of the async selectTool: resolved with an adapter or null, or
\* rejected because an awaited isInstalled() rejected.
Resolved(t) == [thrown |-> FALSE, tool |-> t]
Rejected == [thrown |-> TRUE, tool |-> Null]

\* Mutant: the loop keeps going and returns the last installed adapter.
RECURSIVE LastInstalled(_, _, _)
LastInstalled(reg, inst, i) ==
    IF i > Len(reg) THEN Resolved(Null)
    ELSE LET rest == LastInstalled(reg, inst, i + 1) IN
         IF inst[reg[i].tool] = "throws" THEN Rejected
         ELSE IF rest.thrown \/ rest.tool # Null THEN rest
         ELSE IF inst[reg[i].tool] = "installed" THEN Resolved(reg[i].tool)
         ELSE rest

\* "First installed": for (const [name, tool] of this.tools) from entry i on.
RECURSIVE FirstInstalled(_, _, _)
FirstInstalled(reg, inst, i) ==
    IF i > Len(reg) THEN Resolved(Null)
    ELSE IF inst[reg[i].tool] = "throws" THEN Rejected
    ELSE IF inst[reg[i].tool] = "installed" THEN Resolved(reg[i].tool)
    ELSE FirstInstalled(reg, inst, i + 1)

\* Mutant: the manager's preferred name is ignored.
IgnorePreferred(reg, pref, inst) == FirstInstalled(reg, inst, 1)

\* Mutant: the preferred adapter was found installed when the manager was
\* made and is returned without asking again.
TrustPreferred(reg, pref, inst) ==
    IF Truthy(pref) /\ Has(reg, pref)
    THEN Resolved(Get(reg, pref))
    ELSE FirstInstalled(reg, inst, 1)

\* "Manager's preferred" step, falling through to the loop.
ManagerPreferred(reg, pref, inst) ==
    IF Truthy(pref) /\ Has(reg, pref)
    THEN LET tool == Get(reg, pref) IN
         IF inst[tool] = "throws" THEN Rejected
         ELSE IF inst[tool] = "installed" THEN Resolved(tool)
         ELSE FirstInstalled(reg, inst, 1)
    ELSE FirstInstalled(reg, inst, 1)

\* Mutant: the manager's preference is consulted before the caller's override.
PreferredBeforeOverride(reg, pref, inst, override) ==
    LET viaPref == ManagerPreferred(reg, pref, inst) IN
    IF Truthy(pref) /\ Has(reg, pref) /\ inst[Get(reg, pref)] # "absent"
    THEN viaPref
    ELSE IF Truthy(override) /\ Has(reg, override)
              /\ inst[Get(reg, override)] = "installed"
    THEN Resolved(Get(reg, override))
    ELSE viaPref

\* Mutant: an override that is registered but not installed is an error.
StrictOverride(reg, pref, inst, override) ==
    IF Truthy(override) /\ Has(reg, override)
    THEN LET tool == Get(reg, override) IN
         IF inst[tool] = "installed" THEN Resolved(tool) ELSE Rejected
    ELSE ManagerPreferred(reg, pref, inst)

\* selectTool(preferred?): "User override" step, then the rest.
selectTool(reg, pref, inst, override) ==
    IF Truthy(override) /\ Has(reg, override)
    THEN LET tool == Get(reg, override) IN
         IF inst[tool] = "throws" THEN Rejected
         ELSE IF inst[tool] = "installed" THEN Resolved(tool)
         ELSE ManagerPreferred(reg, pref, inst)
    ELSE ManagerPreferred(reg, pref, inst)

\* ------------------------------------------------------------ result values

\* An operation's outcome as its caller sees it: the operation, the name
\* argument of register / setPreferred / selectTool (Undefined for the
\* others), and the value returned or the Error thrown.
Returns(op, arg, v) == [op |-> op, arg |-> arg, thrown |-> FALSE, value |-> v]
Throws(op, arg, msg) ==
    [op |-> op, arg |-> arg, thrown |-> TRUE, value |-> [message |-> msg]]

\* No operation has been called yet.
Idle == [op |-> "none", arg |-> Undefined, thrown |-> FALSE, value |-> [none |-> TRUE]]

\* What an adapter method does when awaited: reject, or resolve with res.
Raise(msg) == [kind |-> "throws", res |-> [message |-> msg]]
Resolve(r) == [kind |-> "returns", res |-> r]

\* One invocation of a category method on an adapter and how it ended
\* (Raise(..) or Resolve(..)).
Call(tool, method, how) == [tool |-> tool, method |-> method, how |-> how]

\* What an operation did: the adapter calls it made and its outcome.
Did(cs, r) == [calls |-> cs, result |-> r]

\* The Error of a rejected isInstalled() probe.
ProbeError == "probe failed"


\* ------------------------------------------------------------ LintManager

\* LintResults a registered lint adapter may resolve with.
AdapterLintResults ==
    { [success |-> TRUE, warnings |-> <<>>, lintErrors |-> <<>>,
       stdout |-> "", stderr |-> ""],
      [success |-> TRUE, warnings |-> <<"W">>, lintErrors |-> <<>>,
       stdout |-> "", stderr |-> "W"],
      [success |-> FALSE, warnings |-> <<>>, lintErrors |-> <<"E">>,
       stdout |-> "", stderr |-> "E"] }

LintBehaviours == {Raise("lint crashed")} \cup {Resolve(r) : r \in AdapterLintResults}

\* The literal "no tool" LintResult.
NoLintTool ==
    [success |-> FALSE, warnings |-> <<>>, lintErrors |-> <<>>,
     stderr |-> "No lint tool available"]

\* The catch block of lint.
LintFailure(msg) ==
    [success |-> FALSE, warnings |-> <<>>, lintErrors |-> <<>>, stderr |-> msg]

\* Mutant: when the selected adapter's lint fails, another adapter is tried.
LintRetriesElsewhere(sel, b) ==
    IF sel.thrown THEN Did(<<>>, Throws("lint", Undefined, ProbeError))
    ELSE IF sel.tool = Null THEN Did(<<>>, Returns("lint", Undefined, NoLintTool))
    ELSE IF b.kind = "throws"
    THEN LET other == CHOOSE a \in Adapters : a # sel.tool
             again == Resolve([success |-> TRUE, warnings |-> <<>>,
                               lintErrors |-> <<>>, stdout |-> "", stderr |-> ""]) IN
         Did(<<Call(sel.tool, "lint", b), Call(other, "lint", again)>>,
             Returns("lint", Undefined, again.res))
    ELSE Did(<<Call(sel.tool, "lint", b)>>, Returns("lint", Undefined, b.res))

\* lint(files, preferredTool?) given what selectTool answered and what the
\* selected adapter's lint does.  selectTool is awaited outside the try.
lint(sel, b) ==
    IF sel.thrown THEN Did(<<>>, Throws("lint", Undefined, ProbeError))
    ELSE IF sel.tool = Null THEN Did(<<>>, Returns("lint", Undefined, NoLintTool))
    ELSE Did(<<Call(sel.tool, "lint", b)>>,
             IF b.kind = "throws"
             THEN Returns("lint", Undefined, LintFailure(b.res.message))
             ELSE Returns("lint", Undefined, b.res))

\* ------------------------------------------------------ SimulationManager

\* CompileResults a simulation adapter may resolve with.
AdapterCompileResults ==
    { [success |-> TRUE, executable |-> "obj_dir/Vtop", stderr |-> ""],
      [success |-> FALSE, errors |-> <<"compile error">>, stderr |-> "syntax error"],
      [success |-> FALSE, errors |-> <<>>, stderr |-> "verilator: not found"] }

CompileBehaviours ==
    {Raise("compile crashed")} \cup {Resolve(r) : r \in AdapterCompileResults}

\* SimulationResults a simulation adapter's simulate may resolve with.
AdapterSimulationResults ==
    { [success |-> TRUE, passed |-> TRUE, stderr |-> ""],
      [success |-> TRUE, passed |-> FALSE, stderr |-> ""],
      [success |-> FALSE, passed |-> FALSE, stderr |-> "Command failed"] }

SimulateBehaviours ==
    {Raise("simulate crashed")} \cup {Resolve(r) : r \in AdapterSimulationResults}

\* collectCoverage is optional on the interface: not defined, resolving,
\* or rejecting.
CoverageBehaviours == {"absent", "returns", "throws"}

CoverageValue == [kind |-> "CoverageResult"]

NoSimulationTool ==
    [success |-> FALSE, passed |-> FALSE, stderr |-> "No simulation tool available"]

\* The early return on a failed compile.
CompileFailure(compileResult) ==
    [success |-> FALSE, passed |-> FALSE,
     errors |-> compileResult.errors, stderr |-> compileResult.stderr]

\* The outer catch block of simulate.
SimulationFailure(msg) == [success |-> FALSE, passed |-> FALSE, stderr |-> msg]

\* "Collect coverage if supported": the inner try around collectCoverage.
WithCoverage(tool, simResult, cov) ==
    IF cov # "absent" /\ simResult.success
    THEN IF cov = "throws"
         THEN [calls |-> <<Call(tool, "collectCoverage", Raise("coverage crashed"))>>,
               value |-> simResult]
         ELSE [calls |-> <<Call(tool, "collectCoverage", Resolve(CoverageValue))>>,
               value |-> ("coverage" :> CoverageValue) @@ simResult]
    ELSE [calls |-> <<>>, value |-> simResult]

\* Mutant: the simulate step runs whatever compile reported.
SimulateAnyway(tool, c, s, cov) ==
    IF c.kind = "throws"
    THEN [calls |-> <<Call(tool, "compile", c)>>,
          value |-> SimulationFailure(c.res.message)]
    ELSE IF s.kind = "throws"
    THEN [calls |-> <<Call(tool, "compile", c),
                      Call(tool, "simulate", s)>>,
          value |-> SimulationFailure(s.res.message)]
    ELSE LET w == WithCoverage(tool, s.res, cov) IN
         [calls |-> <<Call(tool, "compile", c),
                      Call(tool, "simulate", s)>> \o w.calls,
          value |-> w.value]

\* The try block of simulate on the selected adapter: compile, then
\* simulate only if compile succeeded, then coverage.
CompileAndSimulate(tool, c, s, cov) ==
    IF c.kind = "throws"
    THEN [calls |-> <<Call(tool, "compile", c)>>,
          value |-> SimulationFailure(c.res.message)]
    ELSE IF ~c.res.success
    THEN [calls |-> <<Call(tool, "compile", c)>>,
          value |-> CompileFailure(c.res)]
    ELSE IF s.kind = "throws"
    THEN [calls |-> <<Call(tool, "compile", c),
                      Call(tool, "simulate", s)>>,
          value |-> SimulationFailure(s.res.message)]
    ELSE LET w == WithCoverage(tool, s.res, cov) IN
         [calls |-> <<Call(tool, "compile", c),
                      Call(tool, "simulate", s)>> \o w.calls,
          value |-> w.value]

\* Mutant: the null check is missing, so compile is called on null inside
\* the try and the TypeError is folded into the catch block's result.
SimulateWithoutNullCheck(sel, c, s, cov) ==
    IF sel.thrown THEN Did(<<>>, Throws("simulate", Undefined, ProbeError))
    ELSE IF sel.tool = Null
    THEN Did(<<>>, Returns("simulate", Undefined,
                           SimulationFailure("Cannot read properties of null")))
    ELSE LET r == CompileAndSimulate(sel.tool, c, s, cov) IN
         Did(r.calls, Returns("simulate", Undefined, r.value))

\* simulate(files, testbench, args?, preferredTool?)
simulate(sel, c, s, cov) ==
    IF sel.thrown THEN Did(<<>>, Throws("simulate", Undefined, ProbeError))
    ELSE IF sel.tool = Null
    THEN Did(<<>>, Returns("simulate", Undefined, NoSimulationTool))
    ELSE LET r == CompileAndSimulate(sel.tool, c, s, cov) IN
         Did(r.calls, Returns("simulate", Undefined, r.value))

\* ------------------------------------------------------- SynthesisManager

\* SynthesisResults a synthesis adapter's synthesize may resolve with; the
\* netlist path is optional and may be the empty string.
AdapterSynthesisResults ==
    { [success |-> TRUE, netlist |-> "netlist.v", stderr |-> ""],
      [success |-> TRUE, netlist |-> "", stderr |-> ""],
      [success |-> TRUE, netlist |-> Undefined, stderr |-> ""],
      [success |-> FALSE, netlist |-> Undefined, stderr |-> "synthesis failed"] }

SynthesizeBehaviours ==
    {Raise("synthesize crashed")} \cup {Resolve(r) : r \in AdapterSynthesisResults}

\* analyzeTiming / estimatePPA resolve or reject.
AnalysisBehaviours == {"returns", "throws"}

TimingValue == [kind |-> "TimingResult"]
PPAValue == [kind |-> "PPAResult"]

NoSynthesisTool == [success |-> FALSE, stderr |-> "No synthesis tool available"]

\* The outer catch block of synthesize.
SynthesisFailure(msg) == [success |-> FALSE, stderr |-> msg]

\* Mutant: no inner try, a rejecting analysis rejects the enrichment.
AnalyzeUnguarded(tool, res, t, p) ==
    IF res.success /\ Truthy(res.netlist)
    THEN IF t = "throws"
         THEN [calls |-> <<Call(tool, "analyzeTiming", Raise("analyzeTiming crashed"))>>,
               value |-> SynthesisFailure("analyzeTiming crashed")]
         ELSE IF p = "throws"
         THEN [calls |-> <<Call(tool, "analyzeTiming", Resolve(TimingValue)),
                           Call(tool, "estimatePPA", Raise("estimatePPA crashed"))>>,
               value |-> SynthesisFailure("estimatePPA crashed")]
         ELSE [calls |-> <<Call(tool, "analyzeTiming", Resolve(TimingValue)),
                           Call(tool, "estimatePPA", Resolve(PPAValue))>>,
               value |-> ("timing" :> TimingValue) @@ ("ppa" :> PPAValue) @@ res]
    ELSE [calls |-> <<>>, value |-> res]

\* "Analyze timing if synthesis succeeded": both analyses in ONE inner try,
\* analyzeTiming first; a rejection skips what is left of the block.
Analyze(tool, res, t, p) ==
    IF res.success /\ Truthy(res.netlist)
    THEN IF t = "throws"
         THEN [calls |-> <<Call(tool, "analyzeTiming", Raise("analyzeTiming crashed"))>>,
               value |-> res]
         ELSE IF p = "throws"
         THEN [calls |-> <<Call(tool, "analyzeTiming", Resolve(TimingValue)),
                           Call(tool, "estimatePPA", Raise("estimatePPA crashed"))>>,
               value |-> ("timing" :> TimingValue) @@ res]
         ELSE [calls |-> <<Call(tool, "analyzeTiming", Resolve(TimingValue)),
                           Call(tool, "estimatePPA", Resolve(PPAValue))>>,
               value |-> ("timing" :> TimingValue) @@ ("ppa" :> PPAValue) @@ res]
    ELSE [calls |-> <<>>, value |-> res]

\* synthesize(design, constraints, preferredTool?)
synthesize(sel, y, t, p) ==
    IF sel.thrown THEN Did(<<>>, Throws("synthesize", Undefined, ProbeError))
    ELSE IF sel.tool = Null
    THEN Did(<<>>, Returns("synthesize", Undefined, NoSynthesisTool))
    ELSE IF y.kind = "throws"
    THEN Did(<<Call(sel.tool, "synthesize", y)>>,
             Returns("synthesize", Undefined, SynthesisFailure(y.res.message)))
    ELSE LET a == Analyze(sel.tool, y.res, t, p) IN
         Did(<<Call(sel.tool, "synthesize", y)>> \o a.calls,
             Returns("synthesize", Undefined, a.value))

\* -------------------------------------------------- detectInstalledTools

\* Mutant: a rejecting probe ends the loop; the adapters after it are not
\* probed.
RECURSIVE DetectedUntilThrow(_, _, _)
DetectedUntilThrow(reg, inst, i) ==
    IF i > Len(reg) \/ inst[reg[i].tool] = "throws" THEN <<>>
    ELSE (IF inst[reg[i].tool] = "installed" THEN <<reg[i].name>> ELSE <<>>)
         \o DetectedUntilThrow(reg, inst, i + 1)

\* The loop of detectInstalledTools from entry i on; a rejecting probe is
\* caught and the adapter left out.
RECURSIVE Detected(_, _, _)
Detected(reg, inst, i) ==
    IF i > Len(reg) THEN <<>>
    ELSE (IF inst[reg[i].tool] = "installed" THEN <<reg[i].name>> ELSE <<>>)
         \o Detected(reg, inst, i + 1)

\* --------------------------------------------------- adapter behaviours

\* What the selected simulation adapter does during one simulate call:
\* <<compile, simulate, collectCoverage>>.  A step the call cannot reach
\* (simulate after a compile that did not succeed, coverage after a
\* simulate that did not succeed) is given one representative behaviour.
SimulationScripts ==
    { <<c, s, cov>> \in CompileBehaviours \X SimulateBehaviours \X CoverageBehaviours :
        /\ (c.kind = "throws" \/ ~c.res.success) => s = Resolve(
              [success |-> TRUE, passed |-> TRUE, stderr |-> ""])
        /\ (c.kind = "throws" \/ ~c.res.success \/ s.kind = "throws") =>
              cov = "returns" }

\* What the selected synthesis adapter does during one synthesize call:
\* <<synthesize, analyzeTiming, estimatePPA>>, with one representative for
\* the analyses when synthesize rejects.
SynthesisScripts ==
    { <<y, t, p>> \in SynthesizeBehaviours \X AnalysisBehaviours \X AnalysisBehaviours :
        y.kind = "throws" => (t = "returns" /\ p = "returns") }

\* No child process has been spawned.
NoProcess == [status |-> "none", stdout |-> <<>>, stderr |-> <<>>]

\* No selectTool execution has been observed.
NotObserved == [seen |-> FALSE]

\* Simulation adapter instances (each createSimulationManager() makes a new
\* VerilatorSim and a new IcarusSim) and the class of each.
SimInstances == {"VerilatorSim#1", "IcarusSim#1", "IcarusSim#2"}
ClassOf(i) == IF i = "VerilatorSim#1" THEN "VerilatorSim" ELSE "IcarusSim"

\* Base names of the first file handed to compile, the compile+simulate
\* pairs that are followed, and the paths an executable is written to.
TopModules == {"top", "alu"}
Pairs == {"A", "B"}
Paths == {"obj_dir/Vtop", "obj_dir/Valu", "a.out"}

\* Nothing has been written at a path; a simulate step has run nothing.
Nothing == "nothing"

\* A pair that has not been started.
NotStarted ==
    [pc |-> "idle", inst |-> Undefined, top |-> Undefined, ran |-> Nothing,
     overlapped |-> FALSE, direct |-> FALSE]

\* The language servers detectLSP knows, in the order it tries them.
LspOrder == <<"slang", "verible", "svls">>
LspServers == {LspOrder[i] : i \in DOMAIN LspOrder}

\* No client has been created.
NoClient == [type |-> Undefined, started |-> FALSE]

\* readRalphState / readUltraworkState answer null: there is no state file.
NoState == [file |-> "absent"]

\* A mode check answered null (or was not reached).
NullResult == [isNull |-> TRUE]

\* No Stop event has been handled since the state files last changed.
NoChecks == [ralph |-> NullResult, ultrawork |-> NullResult, todoCount |-> 0]

\* No Ralph loop has been started.
NoLoop == [start |-> 0, max |-> 0, blocks |-> 0]

\* ------------------------------------------------------------------ actions

Init ==
    /\ category \in Categories
    /\ tools = <<>>
    /\ preferredTool = Undefined
    /\ installed = [a \in Adapters |-> "absent"]
    /\ calls = <<>>
    /\ result = Idle
    /\ adapter = "none"
    /\ proc = NoProcess
    /\ observed = NotObserved
    /\ executable = [i \in SimInstances |-> Undefined]
    /\ disk = [f \in Paths |-> Nothing]
    /\ pair = [p \in Pairs |-> NotStarted]
    /\ lspEnv = [s \in LspServers |-> [create |-> "returns", probe |-> "absent"]]
    /\ client = NoClient
    /\ ralph = NoState
    /\ ultrawork = NoState
    /\ todos = 0
    /\ checks = NoChecks
    /\ loop = NoLoop

\* Mutant: a name that is already registered keeps its first adapter.
RegisterKeepsFirst(name, tool) ==
    /\ tools' = IF Has(tools, name) THEN tools ELSE MapSet(tools, name, tool)
    /\ calls' = <<>>
    /\ result' = Returns("register", name, [done |-> TRUE])
    /\ UNCHANGED <<category, preferredTool, installed>>
    /\ UNCHANGED outsideManager

\* register(name, tool)
Register(name, tool) ==
    /\ tools' = MapSet(tools, name, tool)
    /\ calls' = <<>>
    /\ result' = Returns("register", name, [done |-> TRUE])
    /\ UNCHANGED <<category, preferredTool, installed>>
    /\ UNCHANGED outsideManager

\* Mutant: the name is stored without looking it up.
SetPreferredUnchecked(name) ==
    /\ preferredTool' = name
    /\ result' = Returns("setPreferred", name, [done |-> TRUE])
    /\ calls' = <<>>
    /\ UNCHANGED <<category, tools, installed>>
    /\ UNCHANGED outsideManager

\* setPreferred(name)
SetPreferred(name) ==
    /\ IF ~Has(tools, name)
       THEN /\ result' = Throws("setPreferred", name, "tool not registered")
            /\ UNCHANGED preferredTool
       ELSE /\ preferredTool' = name
            /\ result' = Returns("setPreferred", name, [done |-> TRUE])
    /\ calls' = <<>>
    /\ UNCHANGED <<category, tools, installed>>
    /\ UNCHANGED outsideManager

\* detectInstalledTools()
DetectInstalledTools ==
    /\ calls' = <<>>
    /\ result' = Returns("detectInstalledTools", Undefined,
                         [names |-> Detected(tools, installed, 1)])
    /\ UNCHANGED <<category, tools, preferredTool, installed>>
    /\ UNCHANGED outsideManager

\* getAvailableTools()
GetAvailableTools ==
    /\ calls' = <<>>
    /\ result' = Returns("getAvailableTools", Undefined, [names |-> Keys(tools)])
    /\ UNCHANGED <<category, tools, preferredTool, installed>>
    /\ UNCHANGED outsideManager

\* Mutant: the adapter returned by the call before is remembered and
\* returned again.
SelectToolSticky(override) ==
    LET sel == IF result.op = "selectTool" /\ ~result.thrown
               THEN Resolved(result.value.tool)
               ELSE selectTool(tools, preferredTool, installed, override) IN
    /\ calls' = <<>>
    /\ result' = IF sel.thrown THEN Throws("selectTool", override, ProbeError)
                 ELSE Returns("selectTool", override, [tool |-> sel.tool])
    /\ UNCHANGED <<category, tools, preferredTool, installed>>
    /\ UNCHANGED outsideManager

\* selectTool(override) called on its own.
SelectTool(override) ==
    LET sel == selectTool(tools, preferredTool, installed, override) IN
    /\ calls' = <<>>
    /\ result' = IF sel.thrown THEN Throws("selectTool", override, ProbeError)
                 ELSE Returns("selectTool", override, [tool |-> sel.tool])
    /\ UNCHANGED <<category, tools, preferredTool, installed>>
    /\ UNCHANGED outsideManager

\* Mutant: lint remembers the override as the manager's preferred name.
LintRemembersOverride(override, b) ==
    /\ category = "lint"
    /\ LET d == lint(selectTool(tools, preferredTool, installed, override), b) IN
       /\ calls' = d.calls
       /\ result' = d.result
    /\ preferredTool' = IF Truthy(override) /\ Has(tools, override)
                        THEN override ELSE preferredTool
    /\ UNCHANGED <<category, tools, installed>>
    /\ UNCHANGED outsideManager

\* LintManager.lint
Lint(override, b) ==
    /\ category = "lint"
    /\ LET d == lint(selectTool(tools, preferredTool, installed, override), b) IN
       /\ calls' = d.calls
       /\ result' = d.result
    /\ UNCHANGED <<category, tools, preferredTool, installed>>
    /\ UNCHANGED outsideManager

\* SimulationManager.simulate
Simulate(override, c, s, cov) ==
    /\ category = "simulation"
    /\ LET d == simulate(selectTool(tools, preferredTool, installed, override),
                         c, s, cov) IN
       /\ calls' = d.calls
       /\ result' = d.result
    /\ UNCHANGED <<category, tools, preferredTool, installed>>
    /\ UNCHANGED outsideManager

\* SynthesisManager.synthesize
Synthesize(override, y, t, p) ==
    /\ category = "synthesis"
    /\ LET d == synthesize(selectTool(tools, preferredTool, installed, override),
                           y, t, p) IN
       /\ calls' = d.calls
       /\ result' = d.result
    /\ UNCHANGED <<category, tools, preferredTool, installed>>
    /\ UNCHANGED outsideManager

\* The environment between two operations: a tool is installed or removed,
\* or its probe starts failing.  The last operation's outcome was about the
\* environment it ran in, so it is dropped.
EnvChange(a, o) ==
    /\ installed[a] # o
    /\ installed' = [installed EXCEPT ![a] = o]
    /\ calls' = <<>>
    /\ result' = Idle
    /\ UNCHANGED <<category, tools, preferredTool>>
    /\ UNCHANGED outsideManager

Next ==
    \/ \E n \in Names : Register(n, AdapterOf(n))
    \/ \E n \in Names : SetPreferred(n)
    \/ DetectInstalledTools
    \/ GetAvailableTools
    \/ \E o \in Overrides : SelectTool(o)
    \/ \E o \in Overrides, b \in LintBehaviours : Lint(o, b)
    \/ \E o \in Overrides, x \in SimulationScripts : Simulate(o, x[1], x[2], x[3])
    \/ \E o \in Overrides, x \in SynthesisScripts : Synthesize(o, x[1], x[2], x[3])
    \/ \E a \in Adapters, o \in ProbeOutcomes : EnvChange(a, o)

Spec == Init /\ [][Next]_vars

\* ---- the registry on its own: any adapter instance under any name

RegistryNext ==
    \/ \E n \in Names, t \in Adapters : Register(n, t)
    \/ \E n \in Names : SetPreferred(n)
    \/ GetAvailableTools

RegistryInit == Init /\ category = "lint"

RegistrySpec == RegistryInit /\ [][RegistryNext]_vars

\* ---- selection called twice: a caller keeps the outcome of one selectTool
\* call and later calls selectTool again, other operations in between

\* The names and inputs the two calls are followed with.
SelectionNames == {"verilator", "verible"}
SelectionOverrides == SelectionNames \cup {Undefined}

\* The caller takes the outcome of the selectTool call that just returned,
\* together with the four inputs it ran with.
Observe ==
    /\ result.op = "selectTool"
    /\ ~observed.seen
    /\ observed' = [seen |-> TRUE, tools |-> tools, preferredTool |-> preferredTool,
                    installed |-> installed, override |-> result.arg,
                    thrown |-> result.thrown, value |-> result.value]
    /\ result' = Idle
    /\ UNCHANGED <<managerVars, adapterVars, simVars, lspVars, hookVars>>

SelectionNext ==
    \/ \E n \in SelectionNames : Register(n, AdapterOf(n))
    \/ \E n \in SelectionNames : SetPreferred(n)
    \/ \E o \in SelectionOverrides : SelectTool(o)
    \/ \E o \in SelectionOverrides, b \in LintBehaviours : Lint(o, b)
    \/ DetectInstalledTools
    \/ \E n \in SelectionNames, o \in {"installed", "absent"} :
          EnvChange(AdapterOf(n), o)
    \/ Observe

SelectionInit == Init /\ category = "lint"

SelectionSpec == SelectionInit /\ [][SelectionNext]_vars

\* ------------------------------------------------- selection, as specified

\* Registry entries whose probe answers true.
InstalledEntries == {i \in DOMAIN tools : installed[tools[i].tool] = "installed"}

\* The first adapter in registration order that is installed, else null.
FirstInstalledOrNull ==
    IF InstalledEntries = {} THEN Null
    ELSE tools[CHOOSE i \in InstalledEntries :
                   \A j \in InstalledEntries : i <= j].tool

\* Every registered adapter's probe answers (true or false).
ProbesAnswer == \A i \in DOMAIN tools : installed[tools[i].tool] # "throws"

\* The manager's preferred name is registered and installed.
PreferredUsable ==
    /\ Truthy(preferredTool)
    /\ Has(tools, preferredTool)
    /\ installed[Get(tools, preferredTool)] = "installed"

\* The last operation was selectTool with an override naming a registered
\* adapter whose probe answered p.
OverrideProbed(p) ==
    /\ result.op = "selectTool"
    /\ Truthy(result.arg)
    /\ Has(tools, result.arg)
    /\ installed[Get(tools, result.arg)] = p

\* The last operation was a category operation.
CategoryOp == result.op \in {"lint", "simulate", "synthesize"}

\* The calls of the last operation to the given adapter method.
CallsOf(method) == {i \in DOMAIN calls : calls[i].method = method}

\* C1: with no override and no preferred name, selectTool returns the first
\* adapter in registration order whose probe answers true, and null when no
\* registered adapter is installed (it returns whenever the probes answer).
C1_FirstInstalledInOrder ==
    (result.op = "selectTool" /\ result.arg = Undefined /\ preferredTool = Undefined)
    => /\ ProbesAnswer => ~result.thrown
       /\ ~result.thrown => result.value.tool = FirstInstalledOrNull

\* C1 witness: three adapters registered, the first absent, the other two
\* installed, and the second one returned.
C1_Witness ==
    /\ result.op = "selectTool" /\ result.arg = Undefined
    /\ preferredTool = Undefined
    /\ Len(tools) = 3
    /\ installed[tools[1].tool] = "absent"
    /\ installed[tools[2].tool] = "installed"
    /\ installed[tools[3].tool] = "installed"
    /\ ~result.thrown /\ result.value.tool = tools[2].tool

\* C2: an override naming a registered adapter whose probe reports not
\* installed is no error: selection returns the preferred adapter if that
\* one is registered and installed, else the first installed adapter in
\* registration order, else null.
C2_OverrideNotInstalledFallsThrough ==
    OverrideProbed("absent")
    => /\ ProbesAnswer => ~result.thrown
       /\ ~result.thrown =>
            result.value.tool = IF PreferredUsable
                                THEN Get(tools, preferredTool)
                                ELSE FirstInstalledOrNull

\* C2 witness: the override is registered and absent, the preferred adapter
\* is not installed either, and the first installed adapter is returned.
C2_Witness ==
    /\ OverrideProbed("absent")
    /\ Truthy(preferredTool) /\ preferredTool # result.arg
    /\ installed[Get(tools, preferredTool)] = "absent"
    /\ InstalledEntries # {}
    /\ ~result.thrown /\ result.value.tool = FirstInstalledOrNull

\* C3: lint, simulate and synthesize never raise, whatever a registered
\* adapter does: they return a value with a boolean success.
C3_NeverRaises ==
    CategoryOp => /\ ~result.thrown
                  /\ result.value.success \in BOOLEAN

\* C4: an override naming a registered and installed adapter is returned,
\* whatever the preferred name and the registration order are.
C4_OverrideWins ==
    OverrideProbed("installed")
    => /\ ~result.thrown
       /\ result.value.tool = Get(tools, result.arg)

\* C4 witness: the override is installed and registered last, another
\* adapter is preferred and installed, and the first registered adapter is
\* installed as well.
C4_Witness ==
    /\ OverrideProbed("installed")
    /\ PreferredUsable /\ preferredTool # result.arg
    /\ Len(tools) = 3 /\ tools[3].name = result.arg
    /\ installed[tools[1].tool] = "installed"
    /\ ~result.thrown /\ result.value.tool = tools[3].tool

\* C5: with no usable override (absent, unregistered, or registered and
\* reported not installed) and a preferred name that is registered and
\* installed, selectTool returns the preferred adapter.
C5_PreferredBeforeOrder ==
    (/\ result.op = "selectTool"
     /\ \/ ~Truthy(result.arg)
        \/ ~Has(tools, result.arg)
        \/ installed[Get(tools, result.arg)] = "absent"
     /\ PreferredUsable)
    => /\ ~result.thrown
       /\ result.value.tool = Get(tools, preferredTool)

\* C5 witness: the override is registered and absent, the first registered
\* adapter is installed, and the preferred adapter, registered later, is
\* the one returned.
C5_Witness ==
    /\ OverrideProbed("absent")
    /\ PreferredUsable
    /\ installed[tools[1].tool] = "installed"
    /\ tools[1].name # preferredTool
    /\ ~result.thrown /\ result.value.tool = Get(tools, preferredTool)

\* C6: within one SimulationManager.simulate, the adapter's simulate is
\* invoked only after that call's compile resolved with success:true; when
\* compile resolves with success:false the manager returns success:false,
\* passed:false with the compile's errors and stderr and invokes neither
\* simulate nor collectCoverage.
C6_SimulateOnlyAfterCompile ==
    result.op = "simulate"
    => /\ \A i \in CallsOf("simulate") :
             \E j \in CallsOf("compile") :
                 /\ j < i
                 /\ calls[j].how.kind = "returns"
                 /\ calls[j].how.res.success
       /\ \A j \in CallsOf("compile") :
             (calls[j].how.kind = "returns" /\ ~calls[j].how.res.success)
             => /\ ~result.thrown
                /\ result.value.success = FALSE
                /\ result.value.passed = FALSE
                /\ result.value.errors = calls[j].how.res.errors
                /\ result.value.stderr = calls[j].how.res.stderr
                /\ CallsOf("simulate") = {}
                /\ CallsOf("collectCoverage") = {}

\* C6 witness: a simulate call whose compile reported success:false.
C6_Witness ==
    /\ result.op = "simulate"
    /\ Len(calls) = 1
    /\ calls[1].method = "compile"
    /\ calls[1].how.kind = "returns"
    /\ ~calls[1].how.res.success
    /\ result.value.errors = <<"compile error">>

\* C7: when nothing can be selected (empty registry, or every registered
\* adapter reported not installed) the category operation does not throw,
\* invokes no adapter method, and returns success:false with its literal
\* message; lint's result also has empty warnings and errors lists.
C7_NoToolAvailable ==
    (CategoryOp /\ \A i \in DOMAIN tools : installed[tools[i].tool] = "absent")
    => /\ ~result.thrown
       /\ calls = <<>>
       /\ result.value.success = FALSE
       /\ result.op = "lint" =>
            result.value = [success |-> FALSE, warnings |-> <<>>,
                            lintErrors |-> <<>>,
                            stderr |-> "No lint tool available"]
       /\ result.op = "simulate" =>
            result.value.stderr = "No simulation tool available"
       /\ result.op = "synthesize" =>
            result.value.stderr = "No synthesis tool available"

\* C7 witness: simulate on a manager whose two registered adapters are both
\* reported not installed.
C7_Witness ==
    /\ result.op = "simulate"
    /\ Len(tools) = 2
    /\ \A i \in DOMAIN tools : installed[tools[i].tool] = "absent"
    /\ calls = <<>>
    /\ result.value.stderr = "No simulation tool available"

\* The last operation was a synthesize whose adapter resolved with
\* success:true and a netlist.
SynthesisSucceeded ==
    /\ result.op = "synthesize"
    /\ \E i \in CallsOf("synthesize") :
          /\ calls[i].how.kind = "returns"
          /\ calls[i].how.res.success
          /\ Truthy(calls[i].how.res.netlist)

\* C8: when synthesize succeeds with a netlist and analyzeTiming then
\* throws, the result has success:true and no timing, and nothing is thrown.
C8_TimingFailureIsNotFatal ==
    (/\ SynthesisSucceeded
     /\ \E i \in CallsOf("analyzeTiming") : calls[i].how.kind = "throws")
    => /\ ~result.thrown
       /\ result.value.success = TRUE
       /\ "timing" \notin DOMAIN result.value

\* C8 witness: a successful synthesize followed by a throwing analyzeTiming.
C8_Witness ==
    /\ SynthesisSucceeded
    /\ \E i \in CallsOf("analyzeTiming") : calls[i].how.kind = "throws"
    /\ result.value.netlist = "netlist.v"

\* C9: after a successful synthesize both analyses are attempted, timing is
\* set exactly when analyzeTiming succeeded, ppa exactly when estimatePPA
\* succeeded, and success stays true.
C9_AnalysesAreIndependent ==
    SynthesisSucceeded
    => /\ ~result.thrown
       /\ result.value.success = TRUE
       /\ CallsOf("analyzeTiming") # {}
       /\ CallsOf("estimatePPA") # {}
       /\ "timing" \in DOMAIN result.value
            <=> \E i \in CallsOf("analyzeTiming") : calls[i].how.kind = "returns"
       /\ "ppa" \in DOMAIN result.value
            <=> \E i \in CallsOf("estimatePPA") : calls[i].how.kind = "returns"

\* Names of the registry entries whose probe answers true, in registry order.
InstalledNames ==
    Keys(SelectSeq(tools, LAMBDA e : installed[e.tool] = "installed"))

\* C11: detectInstalledTools does not throw and returns exactly the names of
\* the registered adapters whose probe answers true, in registration order;
\* an adapter whose probe throws is left out and changes nothing for the
\* adapters before and after it.
C11_DetectionSkipsThrowingProbes ==
    result.op = "detectInstalledTools"
    => /\ ~result.thrown
       /\ result.value.names = InstalledNames

\* C11 witness: three adapters, the second one's probe throws, the first
\* and the third are installed and both are returned, in that order.
C11_Witness ==
    /\ result.op = "detectInstalledTools"
    /\ Len(tools) = 3
    /\ installed[tools[1].tool] = "installed"
    /\ installed[tools[2].tool] = "throws"
    /\ installed[tools[3].tool] = "installed"
    /\ result.value.names = <<tools[1].name, tools[3].name>>

\* C16: setPreferred(name) with a name that is not registered throws and
\* leaves the preferred name and the registry as they were; with a
\* registered name it sets the preferred name to it and does not throw.
C16_SetPreferredChecksRegistry ==
    [][\A n \in Names :
         (result'.op = "setPreferred" /\ result'.arg = n)
         => /\ tools' = tools
            /\ IF Has(tools, n)
               THEN ~result'.thrown /\ preferredTool' = n
               ELSE result'.thrown /\ preferredTool' = preferredTool]_vars

\* C16 witness: a preferred name was set, then setPreferred was called with
\* a name that is not registered: it threw and the earlier name is kept.
C16_Witness ==
    /\ result.op = "setPreferred" /\ result.thrown
    /\ ~Has(tools, result.arg)
    /\ Truthy(preferredTool) /\ preferredTool # result.arg
    /\ Has(tools, preferredTool)

\* The selectTool call that just returned ran with the inputs of the
\* observed one: same registry, same installed set, same override, same
\* preferred name.
SameInputsAsObserved ==
    /\ observed.seen
    /\ result.op = "selectTool"
    /\ observed.tools = tools
    /\ observed.installed = installed
    /\ observed.override = result.arg
    /\ observed.preferredTool = preferredTool

NoDuplicates(seq) == \A i, j \in DOMAIN seq : seq[i] = seq[j] => i = j

\* C20: registry keys stay unique and getAvailableTools lists each once;
\* register(name, tool) does not throw, binds name to tool, keeps every other
\* binding, and when name was already registered the number of entries
\* stays the same (so the adapter under a name is the one from the most
\* recent register call under it).
C20_LastRegistrationWins ==
    [][/\ NoDuplicates(Keys(tools'))
       /\ result'.op = "getAvailableTools"
            => result'.value.names = Keys(tools')
       /\ \A n \in Names, t \in Adapters :
            Register(n, t)
            => /\ ~result'.thrown
               /\ Has(tools', n) /\ Get(tools', n) = t
               /\ Has(tools, n) => Len(tools') = Len(tools)
               /\ \A m \in Names \ {n} :
                    Has(tools, m) => Has(tools', m) /\ Get(tools', m) = Get(tools, m)
               /\ \A m \in Names \ {n} : Has(tools', m) => Has(tools, m)]_vars

\* C20 witness: with two names registered, the first-registered name was
\* registered again, with another adapter instance than the second name's;
\* there are still two entries and the name is bound to that instance.
C20_Witness ==
    /\ result.op = "register"
    /\ Len(tools) = 2
    /\ result.arg = tools[1].name
    /\ tools[1].tool # AdapterOf(tools[1].name)
    /\ tools[1].tool = tools[2].tool

\* ============================================================ lint adapters
\* VerilatorLint, SlangLint and VeribleLint: run() spawns the tool with
\* execAsync, lint() feeds run()'s result to parseLintOutput.
\*
\* Text is a sequence of lines, a line a sequence of lexemes (tokens).  The
\* child process writes whole, newline-terminated lines.

LintAdapters == {"VerilatorLint", "SlangLint", "VeribleLint"}

\* Lines per stream the child process writes before it exits.
MaxStdoutLines == 1
MaxStderrLines == 1

\* Lexeme classes of the regular expressions.
Digits == {"1", "5", "10", "15"}                                    \* \d+
Words == Digits \cup {"Warning", "Error", "WIDTH", "HIERBLOCK",     \* \w+
                      "error", "warning", "note", "message", "text",
                      "Cannot", "find", "module", "file", "undeclared",
                      "identifier", "declared", "here", "Line", "too",
                      "long", "syntax", "unused"}
Spaces == {" "}                                                      \* \s
AnyToken == Words \cup Spaces \cup {"%", "-", ":", "[", "]", "top.v",   \* .
                                    "line-length", "syntax-error"}

\* Lines a tool may print.
SampleLines ==
    { \* %Warning-WIDTH: top.v:10:5: message text
      <<"%", "Warning", "-", "WIDTH", ":", " ", "top.v", ":", "10", ":", "5",
        ":", " ", "message", " ", "text">>,
      \* %Error-HIERBLOCK: top.v:15:10: Cannot find module
      <<"%", "Error", "-", "HIERBLOCK", ":", " ", "top.v", ":", "15", ":", "10",
        ":", " ", "Cannot", " ", "find", " ", "module">>,
      \* %Error: Cannot find file
      <<"%", "Error", ":", " ", "Cannot", " ", "find", " ", "file">>,
      \* top.v:10:5: error: undeclared identifier
      <<"top.v", ":", "10", ":", "5", ":", " ", "error", ":", " ",
        "undeclared", " ", "identifier">>,
      \* top.v:15:10: warning: unused
      <<"top.v", ":", "15", ":", "10", ":", " ", "warning", ":", " ", "unused">>,
      \* top.v:15:10: note: declared here
      <<"top.v", ":", "15", ":", "10", ":", " ", "note", ":", " ",
        "declared", " ", "here">>,
      \* top.v:10:5: Line too long [line-length]
      <<"top.v", ":", "10", ":", "5", ":", " ", "Line", " ", "too", " ", "long",
        " ", "[", "line-length", "]">>,
      \* top.v:15:1: syntax error [syntax-error]
      <<"top.v", ":", "15", ":", "1", ":", " ", "syntax", " ", "error",
        " ", "[", "syntax-error", "]">> }

\* ---- regular expressions over lexemes

\* One element of a pattern: a lexeme class taken once, or one or more
\* times greedily / lazily; cap marks a capture group.
One(set, cap) == [set |-> set, rep |-> "one", cap |-> cap]
Greedy(set, cap) == [set |-> set, rep |-> "greedy", cap |-> cap]
Lazy(set, cap) == [set |-> set, rep |-> "lazy", cap |-> cap]

NoMatch == [ok |-> FALSE, caps |-> <<>>]

\* Length of the longest run of lexemes of `set` in `line` starting at j.
RECURSIVE Run(_, _, _)
Run(set, line, j) ==
    IF j <= Len(line) /\ line[j] \in set THEN 1 + Run(set, line, j + 1) ELSE 0

\* line.match(/^...$/): elements k.. of `re` against `line` from lexeme j
\* to the end, with the backtracking order of the engine: element k takes
\* n lexemes and, if the rest does not match, tries its next length (a
\* greedy element counts down from its longest run, a lazy one counts up).
RECURSIVE MatchFrom(_, _, _, _)
RECURSIVE Backtrack(_, _, _, _, _, _)
Backtrack(re, k, line, j, n, longest) ==
    IF n < 1 \/ n > longest THEN NoMatch
    ELSE LET rest == MatchFrom(re, k + 1, line, j + n) IN
         IF rest.ok
         THEN [ok |-> TRUE,
               caps |-> (IF re[k].cap THEN <<SubSeq(line, j, j + n - 1)>>
                         ELSE <<>>) \o rest.caps]
         ELSE Backtrack(re, k, line, j,
                        IF re[k].rep = "greedy" THEN n - 1 ELSE n + 1, longest)

MatchFrom(re, k, line, j) ==
    IF k > Len(re)
    THEN IF j > Len(line) THEN [ok |-> TRUE, caps |-> <<>>] ELSE NoMatch
    ELSE LET longest == Run(re[k].set, line, j) IN
         IF re[k].rep = "one" THEN Backtrack(re, k, line, j, 1, IF longest >= 1 THEN 1 ELSE 0)
         ELSE IF re[k].rep = "greedy" THEN Backtrack(re, k, line, j, longest, longest)
         ELSE Backtrack(re, k, line, j, 1, longest)

Match(re, line) == MatchFrom(re, 1, line, 1)

\* /^%(Warning|Error)-(\w+):\s+(.+?):(\d+):(\d+):\s+(.+)$/
VerilatorPattern ==
    << One({"%"}, FALSE), One({"Warning", "Error"}, TRUE), One({"-"}, FALSE),
       One(Words, TRUE), One({":"}, FALSE), Greedy(Spaces, FALSE),
       Lazy(AnyToken, TRUE), One({":"}, FALSE), One(Digits, TRUE),
       One({":"}, FALSE), One(Digits, TRUE), One({":"}, FALSE),
       Greedy(Spaces, FALSE), Greedy(AnyToken, TRUE) >>

\* /^(.+?):(\d+):(\d+):\s+(error|warning|note):\s+(.+)$/
SlangPattern ==
    << Lazy(AnyToken, TRUE), One({":"}, FALSE), One(Digits, TRUE),
       One({":"}, FALSE), One(Digits, TRUE), One({":"}, FALSE),
       Greedy(Spaces, FALSE), One({"error", "warning", "note"}, TRUE),
       One({":"}, FALSE), Greedy(Spaces, FALSE), Greedy(AnyToken, TRUE) >>

\* /^(.+?):(\d+):(\d+):\s+(.+?)\s+\[(.+?)\]$/
VeriblePattern ==
    << Lazy(AnyToken, TRUE), One({":"}, FALSE), One(Digits, TRUE),
       One({":"}, FALSE), One(Digits, TRUE), One({":"}, FALSE),
       Greedy(Spaces, FALSE), Lazy(AnyToken, TRUE), Greedy(Spaces, FALSE),
       One({"["}, FALSE), Lazy(AnyToken, TRUE), One({"]"}, FALSE) >>

\* parseInt(s, 10) of a captured \d+ lexeme.
ParseInt(cap) ==
    CASE cap = <<"1">> -> 1
      [] cap = <<"5">> -> 5
      [] cap = <<"10">> -> 10
      [] cap = <<"15">> -> 15

\* String.prototype.trim on a captured message.
RECURSIVE Trim(_)
Trim(msg) ==
    IF msg = <<>> THEN msg
    ELSE IF Head(msg) \in Spaces THEN Trim(Tail(msg))
    ELSE IF msg[Len(msg)] \in Spaces THEN Trim(SubSeq(msg, 1, Len(msg) - 1))
    ELSE msg

\* message.toLowerCase().includes('error')
IncludesError(msg) ==
    \E i \in DOMAIN msg : msg[i] \in {"error", "Error", "syntax-error"}

Diagnostic(file, line, column, code, message, severity) ==
    [file |-> file, line |-> ParseInt(line), column |-> ParseInt(column),
     code |-> code, message |-> Trim(message), severity |-> severity]

\* The body of the loop of each parseLintOutput for one line: the lists a
\* line adds to warnings and to errors.
VerilatorLine(line) ==
    LET m == Match(VerilatorPattern, line) IN
    IF ~m.ok THEN [warnings |-> <<>>, errors |-> <<>>]
    ELSE IF m.caps[1] = <<"Warning">>
    THEN [warnings |-> <<Diagnostic(m.caps[3], m.caps[4], m.caps[5], m.caps[2],
                                    m.caps[6], "warning")>>,
          errors |-> <<>>]
    ELSE [warnings |-> <<>>,
          errors |-> <<Diagnostic(m.caps[3], m.caps[4], m.caps[5], m.caps[2],
                                  m.caps[6], "error")>>]

SlangLine(line) ==
    LET m == Match(SlangPattern, line) IN
    IF ~m.ok THEN [warnings |-> <<>>, errors |-> <<>>]
    ELSE IF m.caps[4] = <<"error">>
    THEN [warnings |-> <<>>,
          errors |-> <<Diagnostic(m.caps[1], m.caps[2], m.caps[3], <<"slang">>,
                                  m.caps[5], "error")>>]
    ELSE [warnings |-> <<Diagnostic(m.caps[1], m.caps[2], m.caps[3], <<"slang">>,
                                    m.caps[5],
                                    IF m.caps[4] = <<"warning">>
                                    THEN "warning" ELSE "info")>>,
          errors |-> <<>>]

VeribleLine(line) ==
    LET m == Match(VeriblePattern, line) IN
    IF ~m.ok THEN [warnings |-> <<>>, errors |-> <<>>]
    ELSE IF IncludesError(m.caps[4])
    THEN [warnings |-> <<>>,
          errors |-> <<Diagnostic(m.caps[1], m.caps[2], m.caps[3], m.caps[5],
                                  m.caps[4], "error")>>]
    ELSE [warnings |-> <<Diagnostic(m.caps[1], m.caps[2], m.caps[3], m.caps[5],
                                    m.caps[4], "warning")>>,
          errors |-> <<>>]

ParseLine(a, line) ==
    CASE a = "VerilatorLint" -> VerilatorLine(line)
      [] a = "SlangLint" -> SlangLine(line)
      [] a = "VeribleLint" -> VeribleLine(line)

\* output.split('\n') of newline-terminated lines: the lines and a last,
\* empty one.
Split(text) == text \o << <<>> >>

\* Mutant: the loop ends at the first line that does not match (break
\* instead of continue).
RECURSIVE ParseLinesUntilMismatch(_, _, _)
ParseLinesUntilMismatch(a, lines, i) ==
    IF i > Len(lines) THEN [warnings |-> <<>>, errors |-> <<>>]
    ELSE LET here == ParseLine(a, lines[i]) IN
         IF here.warnings = <<>> /\ here.errors = <<>>
         THEN [warnings |-> <<>>, errors |-> <<>>]
         ELSE LET rest == ParseLinesUntilMismatch(a, lines, i + 1) IN
              [warnings |-> here.warnings \o rest.warnings,
               errors |-> here.errors \o rest.errors]

\* The loop over the lines from line i on.
RECURSIVE ParseLines(_, _, _)
ParseLines(a, lines, i) ==
    IF i > Len(lines) THEN [warnings |-> <<>>, errors |-> <<>>]
    ELSE LET here == ParseLine(a, lines[i])
             rest == ParseLines(a, lines, i + 1)
         IN [warnings |-> here.warnings \o rest.warnings,
             errors |-> here.errors \o rest.errors]

\* parseLintOutput(result): success is decided by the parsed errors alone.
parseLintOutput(a, toolResult) ==
    LET parsed == ParseLines(a, Split(toolResult.stdout \o toolResult.stderr), 1) IN
    [success |-> Len(parsed.errors) = 0,
     warnings |-> parsed.warnings,
     lintErrors |-> parsed.errors,
     stdout |-> toolResult.stdout,
     stderr |-> toolResult.stderr]

\* run(input): the ToolResult built from what execAsync did.  A process
\* exiting 0 resolves; any other exit, and a failure to spawn, rejects with
\* an Error carrying stdout, stderr, code and message.
run(a, p) ==
    IF p.status = "zero"
    THEN [success |-> TRUE, stdout |-> p.stdout, stderr |-> p.stderr,
          exitCode |-> "0"]
    ELSE [success |-> FALSE, stdout |-> p.stdout, stderr |-> p.stderr,
          exitCode |-> IF p.status = "spawnfail" THEN "ENOENT" ELSE "1",
          errors |-> IF a = "VerilatorLint" THEN <<"Command failed">>
                     ELSE IF p.stderr # <<>> THEN <<p.stderr>> ELSE <<>>]

\* lint(files) once the child process has ended.
adapterLint(a, p) == parseLintOutput(a, run(a, p))

\* ---- actions

\* adapter.lint(files) is called: run() spawns the tool.
StartLint(a) ==
    /\ proc.status # "running"
    /\ adapter' = a
    /\ proc' = [status |-> "running", stdout |-> <<>>, stderr |-> <<>>]
    /\ result' = Idle
    /\ UNCHANGED <<managerVars, outsideAdapter>>

\* The tool prints a line on stdout / on stderr.
WriteStdout(line) ==
    /\ proc.status = "running"
    /\ Len(proc.stdout) < MaxStdoutLines
    /\ proc' = [proc EXCEPT !.stdout = Append(@, line)]
    /\ UNCHANGED <<managerVars, outsideAdapter, adapter, result>>

WriteStderr(line) ==
    /\ proc.status = "running"
    /\ Len(proc.stderr) < MaxStderrLines
    /\ proc' = [proc EXCEPT !.stderr = Append(@, line)]
    /\ UNCHANGED <<managerVars, outsideAdapter, adapter, result>>

\* The tool exits (status zero or nonzero) and lint() returns.
Exit(status) ==
    /\ proc.status = "running"
    /\ proc' = [proc EXCEPT !.status = status]
    /\ result' = Returns("adapter.lint", Undefined,
                         adapterLint(adapter, [proc EXCEPT !.status = status]))
    /\ UNCHANGED <<managerVars, outsideAdapter, adapter>>

\* The command cannot be spawned: execAsync rejects with no output.
SpawnFails ==
    /\ proc.status = "running"
    /\ proc.stdout = <<>> /\ proc.stderr = <<>>
    /\ proc' = [proc EXCEPT !.status = "spawnfail"]
    /\ result' = Returns("adapter.lint", Undefined,
                         adapterLint(adapter, [proc EXCEPT !.status = "spawnfail"]))
    /\ UNCHANGED <<managerVars, outsideAdapter, adapter>>

AdapterNext ==
    \/ \E a \in LintAdapters : StartLint(a)
    \/ \E l \in SampleLines : WriteStdout(l)
    \/ \E l \in SampleLines : WriteStderr(l)
    \/ \E st \in {"zero", "nonzero"} : Exit(st)
    \/ SpawnFails

\* The adapters are followed on their own: the manager stays as constructed.
AdapterInit == Init /\ category = "lint"

AdapterSpec == AdapterInit /\ [][AdapterNext]_vars

\* C10: when the spawned tool signals failure (non-zero exit, or it cannot
\* be spawned) the LintResult of lint has success:false, whatever was parsed.
C10_FailedRunIsNotSuccess ==
    (result.op = "adapter.lint" /\ proc.status \in {"nonzero", "spawnfail"})
    => result.value.success = FALSE

\* The adapter's main method of each category operation.
MainCalls ==
    CallsOf("lint") \cup CallsOf("compile") \cup CallsOf("simulate")
        \cup CallsOf("synthesize")

\* C24: the adapter a lint / simulate / synthesize call delegates to answered
\* its probe with true during that call: an adapter that is not installed
\* now is never called, also when it is the preferred one (set when it was
\* installed) or the one the override names.
C24_OnlyInstalledAdaptersAreCalled ==
    CategoryOp => \A i \in DOMAIN calls : installed[calls[i].tool] = "installed"

\* C24 witness: the preferred adapter is registered but no longer installed
\* and the call went to another adapter.
C24_Witness ==
    /\ CategoryOp
    /\ Truthy(preferredTool)
    /\ installed[Get(tools, preferredTool)] = "absent"
    /\ calls # <<>>
    /\ calls[1].tool # Get(tools, preferredTool)
    /\ installed[calls[1].tool] = "installed"

\* C25: within one lint / simulate / synthesize call all adapter methods
\* are invoked on one adapter, which is registered; its main method is
\* invoked at most once, and when that fails (success:false or a throw) the
\* manager returns a failure: no other adapter is tried.
C25_OneAdapterPerCall ==
    CategoryOp
    => /\ \A i, j \in DOMAIN calls : calls[i].tool = calls[j].tool
       /\ \A i \in DOMAIN calls : \E k \in DOMAIN tools : tools[k].tool = calls[i].tool
       /\ \A m \in {"lint", "compile", "simulate", "synthesize"} :
            Cardinality(CallsOf(m)) <= 1
       /\ \A i \in MainCalls :
            (calls[i].how.kind = "throws" \/ ~calls[i].how.res.success)
            => /\ ~result.thrown
               /\ result.value.success = FALSE

\* C25 witness: three adapters are installed, the selected one's lint threw,
\* and the call ended there with a failure.
C25_Witness ==
    /\ result.op = "lint"
    /\ Cardinality(InstalledEntries) = 3
    /\ Len(calls) = 1
    /\ calls[1].how.kind = "throws"
    /\ result.value.success = FALSE

GrammarOf(a) ==
    CASE a = "VerilatorLint" -> VerilatorPattern
      [] a = "SlangLint" -> SlangPattern
      [] a = "VeribleLint" -> VeriblePattern

\* The lines the tool printed, and the positions of those that match the
\* adapter's grammar.
PrintedLines == proc.stdout \o proc.stderr
MatchingLines ==
    {i \in DOMAIN PrintedLines : Match(GrammarOf(adapter), PrintedLines[i]) # NoMatch}

\* C21: lint returns as many diagnostics as the tool printed lines matching
\* the adapter's grammar (a line matching no grammar adds none, a matching
\* line exactly one, to warnings or to errors); every diagnostic's severity
\* is error, warning, info or hint, and the errors list holds exactly the
\* diagnostics of severity error.
C21_OneDiagnosticPerMatchingLine ==
    result.op = "adapter.lint"
    => LET w == result.value.warnings
           e == result.value.lintErrors IN
       /\ Len(w) + Len(e) = Cardinality(MatchingLines)
       /\ \A i \in DOMAIN w : w[i].severity \in {"warning", "info", "hint"}
       /\ \A i \in DOMAIN e : e[i].severity = "error"

\* C21 witness: the tool printed a line outside the grammar and then a
\* matching one; one diagnostic is returned.
C21_Witness ==
    /\ result.op = "adapter.lint"
    /\ Len(PrintedLines) = 2
    /\ MatchingLines = {2}
    /\ Len(result.value.warnings) + Len(result.value.lintErrors) = 1

\* C23: run() returns a value, and when the process exited non-zero or
\* could not be spawned that value has success:false and a non-empty errors
\* list.
C23_FailedRunHasErrors ==
    proc.status \in {"nonzero", "spawnfail"}
    => /\ run(adapter, proc).success = FALSE
       /\ run(adapter, proc).errors # <<>>

\* ====================================================== simulation adapters
\* VerilatorSim and IcarusSim: compile() spawns the compiler through run(),
\* simulate() spawns the compiled design.  A compile+simulate pair is what
\* SimulationManager.simulate does on the adapter it selected.
\*
\* Text is a sequence of chunks; a pattern occurs in a text when its chunks
\* occur side by side, compared without regard to case.

\* String.toLowerCase on a chunk (the /i flag).
Lower(w) ==
    CASE w \in {"TEST", "Test"} -> "test"
      [] w = "PASSED" -> "passed"
      [] w = "Error" -> "error"
      [] w = "PASS" -> "pass"
      [] w = "FAIL" -> "fail"
      [] OTHER -> w

\* passPatterns and failPatterns of checkSimulationPassed.
PassPatterns ==
    << <<"test", " ", "passed">>, <<"all", " ", "tests", " ", "passed">>,
       <<"simulation", " ", "passed">>, <<"***", " ", "pass", " ", "***">> >>
FailPatterns ==
    << <<"test", " ", "failed">>, <<"error", ":">>,
       <<"assertion", " ", "failed">>, <<"***", " ", "fail", " ", "***">> >>

\* pattern.test(output): the pattern occurs somewhere in the output.
Test(pattern, output) ==
    \E i \in 1..(Len(output) - Len(pattern) + 1) :
        \A k \in DOMAIN pattern : Lower(output[i + k - 1]) = pattern[k]

\* for (const pattern of patterns) if (pattern.test(output)) ...
AnyTest(patterns, output) == \E k \in DOMAIN patterns : Test(patterns[k], output)

\* Mutant: an explicit pass is looked for first.
PassBeforeFail(output) ==
    IF AnyTest(PassPatterns, output) THEN TRUE
    ELSE IF AnyTest(FailPatterns, output) THEN FALSE
    ELSE TRUE

\* checkSimulationPassed(output)
checkSimulationPassed(output) ==
    IF AnyTest(FailPatterns, output) THEN FALSE
    ELSE IF AnyTest(PassPatterns, output) THEN TRUE
    ELSE TRUE

\* Pieces of simulator output, and how many of them one run prints.
MaxFragments == 2
Fragments ==
    { <<"TEST", " ", "PASSED">>,
      <<"Test", " ", "failed">>,
      <<"%", "Error", ":", " ", "x">>,
      <<"test", " ", " ", "passed">>,
      <<"***", " ", "FAIL", " ", "***">>,
      <<"done">> }

\* What a simulation prints on stdout: up to MaxFragments pieces, one per line.
RECURSIVE OutputsOf(_)
OutputsOf(n) ==
    IF n = 0 THEN {<<>>}
    ELSE LET shorter == OutputsOf(n - 1) IN
         shorter \cup {o \o f \o <<"\n">> : o \in shorter, f \in Fragments}
SampleOutputs == OutputsOf(MaxFragments)

\* ---- the adapters

\* `obj_dir/V${topModule}`
VerilatorExecutable(top) == IF top = "top" THEN "obj_dir/Vtop" ELSE "obj_dir/Valu"

\* The file the compiler writes: verilator --cc --build <files> builds
\* obj_dir/V<top>; iverilog -o a.out <files> writes a.out.
OutputPath(class, top) ==
    IF class = "VerilatorSim" THEN VerilatorExecutable(top) ELSE "a.out"

\* this.executable once compile() has been entered: IcarusSim assigns it
\* before spawning the compiler.
ExecutableAtCompileStart(class, before) ==
    IF class = "IcarusSim" THEN "a.out" ELSE before

\* Mutant: the field keeps the executable of the first successful compile.
ExecutableKeptFromFirstCompile(class, before, top) ==
    IF class = "VerilatorSim" /\ before = Undefined
    THEN VerilatorExecutable(top)
    ELSE before

\* this.executable once a compiler run has succeeded: VerilatorSim assigns
\* it then.
ExecutableAfterCompile(class, before, top) ==
    IF class = "VerilatorSim" THEN VerilatorExecutable(top) ELSE before

\* compile(files) once the compiler has exited.
adapterCompile(class, status, top) ==
    IF status = "zero"
    THEN [success |-> TRUE, executable |-> OutputPath(class, top), stderr |-> ""]
    ELSE [success |-> FALSE, errors |-> <<"Command failed">>, stderr |-> ""]

\* Mutant: the catch block also reads the pass / fail markers of stdout.
adapterSimulateReadsOutputOnFailure(status, out) ==
    [success |-> status = "zero", passed |-> checkSimulationPassed(out),
     stdout |-> out, stderr |-> IF status = "zero" THEN "" ELSE "Command failed"]

\* simulate(testbench, args) once the simulation has exited with a status,
\* or has been killed at the timeout.
adapterSimulate(status, out) ==
    IF status = "zero"
    THEN [success |-> TRUE, passed |-> checkSimulationPassed(out),
          stdout |-> out, stderr |-> "", waveform |-> "dump.vcd"]
    ELSE [success |-> FALSE, passed |-> FALSE, stdout |-> out,
          stderr |-> IF status = "timeout" THEN "Command failed: killed"
                     ELSE "Command failed"]

\* simulate() when this.executable is not set.
NotCompiled ==
    [success |-> FALSE, passed |-> FALSE,
     stderr |-> "Design not compiled. Call compile() first."]

\* VerilatorSim has collectCoverage, IcarusSim has not.
CoverageOf(class) == IF class = "VerilatorSim" THEN "returns" ELSE "absent"

\* ---- actions

\* A pair has been started and has not returned.
InFlight(q) == pair[q].pc \in {"compiling", "compiled", "simulating"}

\* SimulationManager.simulate reaches tool.compile(files) on instance i:
\* the compiler is spawned, with no timeout.
StartCompile(p, i, top) ==
    /\ pair[p].pc = "idle"
    /\ LET others == {q \in Pairs \ {p} : InFlight(q) /\ pair[q].inst = i} IN
       pair' = [q \in Pairs |->
                  IF q = p
                  THEN [pc |-> "compiling", inst |-> i, top |-> top,
                        ran |-> Nothing, overlapped |-> others # {},
                        direct |-> FALSE]
                  ELSE IF q \in others
                  THEN [pair[q] EXCEPT !.overlapped = TRUE]
                  ELSE pair[q]]
    /\ executable' = [executable EXCEPT ![i] =
                         ExecutableAtCompileStart(ClassOf(i), @)]
    /\ UNCHANGED <<disk, result>>
    /\ UNCHANGED <<managerVars, adapterVars, observed, lspVars, hookVars>>

\* The compiler exits: compile() returns, and the manager returns its
\* failure or goes on.
CompileExit(p, status) ==
    /\ pair[p].pc = "compiling"
    /\ LET i == pair[p].inst
           class == ClassOf(i)
           compileResult == adapterCompile(class, status, pair[p].top) IN
       IF compileResult.success
       THEN /\ disk' = [disk EXCEPT ![OutputPath(class, pair[p].top)] = p]
            /\ executable' = [executable EXCEPT ![i] =
                                 ExecutableAfterCompile(class, @, pair[p].top)]
            /\ pair' = [pair EXCEPT ![p].pc = "compiled"]
            /\ UNCHANGED result
       ELSE /\ pair' = [pair EXCEPT ![p].pc = "done"]
            /\ result' = Returns("simulate", p, CompileFailure(compileResult))
            /\ UNCHANGED <<disk, executable>>
    /\ UNCHANGED <<managerVars, adapterVars, observed, lspVars, hookVars>>

\* The manager calls tool.simulate(testbench, args): the file named by
\* this.executable is spawned, with the 60 s timeout.
StartSimulate(p) ==
    /\ pair[p].pc = "compiled"
    /\ LET i == pair[p].inst IN
       IF executable[i] = Undefined
       THEN /\ pair' = [pair EXCEPT ![p].pc = "done"]
            /\ result' = Returns("simulate", p, NotCompiled)
       ELSE /\ pair' = [pair EXCEPT ![p].pc = "simulating",
                                    ![p].ran = disk[executable[i]]]
            /\ UNCHANGED result
    /\ UNCHANGED <<disk, executable>>
    /\ UNCHANGED <<managerVars, adapterVars, observed, lspVars, hookVars>>

\* The simulation has ended with a status: simulate() returns, coverage is
\* collected where supported, and the manager returns.
SimulationEnds(p, status, out) ==
    /\ pair[p].pc = "simulating"
    /\ pair' = [pair EXCEPT ![p].pc = "done"]
    /\ result' = IF pair[p].direct
                 THEN Returns("adapter.simulate", p, adapterSimulate(status, out))
                 ELSE Returns("simulate", p,
                         WithCoverage(pair[p].inst, adapterSimulate(status, out),
                                      CoverageOf(ClassOf(pair[p].inst))).value)
    /\ UNCHANGED <<disk, executable>>
    /\ UNCHANGED <<managerVars, adapterVars, observed, lspVars, hookVars>>

\* The simulation exits by itself.
SimExit(p, status, out) == SimulationEnds(p, status, out)

\* 60 s have passed: execAsync kills the simulation and rejects.
SimTimeout(p) == SimulationEnds(p, "timeout", <<>>)

\* A caller holding adapter instance i calls its simulate(testbench, args)
\* without going through the manager: 'Design not compiled' when
\* this.executable is not set, otherwise the file it names is spawned.
SimulateDirect(p, i) ==
    /\ pair[p].pc = "idle"
    /\ IF executable[i] = Undefined
       THEN /\ pair' = [pair EXCEPT ![p] =
                          [NotStarted EXCEPT !.pc = "done", !.inst = i,
                                             !.direct = TRUE]]
            /\ result' = Returns("adapter.simulate", p, NotCompiled)
       ELSE /\ pair' = [pair EXCEPT ![p] =
                          [NotStarted EXCEPT !.pc = "simulating", !.inst = i,
                                             !.direct = TRUE,
                                             !.ran = disk[executable[i]]]]
            /\ UNCHANGED result
    /\ UNCHANGED <<disk, executable>>
    /\ UNCHANGED <<managerVars, adapterVars, observed, lspVars, hookVars>>

\* SimulationManager.simulate with an empty file list on a VerilatorSim:
\* path.extname(files[0]) throws in compile before anything is spawned, and
\* the manager's catch block turns the exception into a result.
CompileThrows(p, i) ==
    /\ pair[p].pc = "idle"
    /\ ClassOf(i) = "VerilatorSim"
    /\ pair' = [pair EXCEPT ![p] = [NotStarted EXCEPT !.pc = "done", !.inst = i]]
    /\ result' = Returns("simulate", p,
                         SimulationFailure("The \"path\" argument must be of type string"))
    /\ UNCHANGED <<disk, executable>>
    /\ UNCHANGED <<managerVars, adapterVars, observed, lspVars, hookVars>>

\* SimulationManager.simulate when selectTool answers null.
SimulateWithoutTool(p) ==
    /\ pair[p].pc = "idle"
    /\ pair' = [pair EXCEPT ![p] = [NotStarted EXCEPT !.pc = "done"]]
    /\ result' = Returns("simulate", p, NoSimulationTool)
    /\ UNCHANGED <<disk, executable>>
    /\ UNCHANGED <<managerVars, adapterVars, observed, lspVars, hookVars>>

\* ---- one pair on one adapter instance, with what the simulation prints

SimulateNext ==
    \/ \E i \in SimInstances, top \in TopModules : StartCompile("A", i, top)
    \/ \E st \in {"zero", "nonzero"} : CompileExit("A", st)
    \/ StartSimulate("A")
    \/ \E st \in {"zero", "nonzero"}, out \in SampleOutputs : SimExit("A", st, out)
    \/ SimTimeout("A")

SimulateInit == Init /\ category = "simulation"

SimulateSpec == SimulateInit /\ [][SimulateNext]_vars

\* The manager's continuations run, and the timeout fires unless the
\* simulation has exited before; nothing makes a spawned process exit.
SimulateLive ==
    /\ SimulateSpec
    /\ WF_vars(StartSimulate("A"))
    /\ WF_vars(SimTimeout("A"))

\* ---- two pairs, on the same or on different adapter instances

PairsNext ==
    \/ \E p \in Pairs, i \in SimInstances, top \in TopModules : StartCompile(p, i, top)
    \/ \E p \in Pairs, st \in {"zero", "nonzero"} : CompileExit(p, st)
    \/ \E p \in Pairs : StartSimulate(p)
    \/ \E p \in Pairs, st \in {"zero", "nonzero"} : SimExit(p, st, <<>>)
    \/ \E p \in Pairs : SimTimeout(p)

PairsSpec == SimulateInit /\ [][PairsNext]_vars

\* ---- calls through the manager and calls on the adapter itself

\* What the simulations of this specification print.
ShortOutputs == OutputsOf(1)

CallsNext ==
    \/ \E p \in Pairs, i \in SimInstances, top \in TopModules : StartCompile(p, i, top)
    \/ \E p \in Pairs, st \in {"zero", "nonzero"} : CompileExit(p, st)
    \/ \E p \in Pairs : StartSimulate(p)
    \/ \E p \in Pairs, st \in {"zero", "nonzero"}, out \in ShortOutputs : SimExit(p, st, out)
    \/ \E p \in Pairs : SimTimeout(p)
    \/ \E p \in Pairs, i \in SimInstances : SimulateDirect(p, i)
    \/ \E p \in Pairs, i \in SimInstances : CompileThrows(p, i)
    \/ \E p \in Pairs : SimulateWithoutTool(p)

CallsSpec == SimulateInit /\ [][CallsNext]_vars

\* C12: a simulation that ran to a zero exit is reported passed:false
\* whenever its output matches a fail pattern, also when a pass pattern
\* matches too, and passed:true in every other case, also when no pattern
\* matches at all.
C12_FailPatternsTakePrecedence ==
    (result.op = "simulate" /\ result.value.success)
    => result.value.passed = ~AnyTest(FailPatterns, result.value.stdout)

\* C12 witness: the output matches a pass pattern and a fail pattern and the
\* result is passed:false.
C12_Witness ==
    /\ result.op = "simulate" /\ result.value.success
    /\ AnyTest(PassPatterns, result.value.stdout)
    /\ AnyTest(FailPatterns, result.value.stdout)
    /\ result.value.passed = FALSE

\* C13: a simulate call that has been started returns, whether or not the
\* processes it spawned (compiler, simulation) ever exit.
C13_SimulateAlwaysReturns ==
    (pair["A"].pc # "idle") ~> (pair["A"].pc = "done")

\* The part of C13 the timeout does give: once the simulation has been
\* spawned the call returns.
SimulationStepReturns ==
    (pair["A"].pc = "simulating") ~> (pair["A"].pc = "done")

\* C14: a pair that does not overlap with the other pair on its adapter
\* instance runs the executable its own compile wrote; only overlapping
\* pairs on one instance can run each other's.
C14_SerializedPairsRunTheirOwn ==
    \A p \in Pairs : \A q \in Pairs \ {p} :
        (pair[p].inst = pair[q].inst /\ ~pair[p].overlapped
            /\ pair[p].ran # Nothing)
        => pair[p].ran = p

\* C14 witness, the unsafe interleaving: both pairs on one VerilatorSim with
\* different top modules, compile A, compile B, then the simulate step of A
\* runs what compile B wrote.
C14_Witness ==
    /\ pair["A"].inst = pair["B"].inst
    /\ ClassOf(pair["A"].inst) = "VerilatorSim"
    /\ pair["A"].top # pair["B"].top
    /\ pair["A"].overlapped
    /\ pair["A"].ran = "B"

\* Serialized pairs on one instance: both have run, each its own executable.
SerializedPairsRan ==
    /\ pair["A"].inst = pair["B"].inst
    /\ \A p \in Pairs : ~pair[p].overlapped /\ pair[p].pc = "done" /\ pair[p].ran = p

\* C15: pairs on different adapter instances do not affect each other: each
\* simulate step runs what its own instance's compile wrote.
C15_DistinctInstancesAreIsolated ==
    \A p \in Pairs : \A q \in Pairs \ {p} :
        (pair[p].inst # pair[q].inst /\ pair[p].ran # Nothing)
        => pair[p].ran = p

\* ================================================ language-server selection
\* detectLSP and createLSPClient, with the client that comes back.

\* LSPType, the files diagnostics are asked for, and the diagnostic lists a
\* server's command-line run may yield.
\* Every compile call made on instance i has returned, none with success:true.
AllCompilesFailedOn(i) ==
    \A q \in Pairs :
        (pair[q].inst = i /\ ~pair[q].direct /\ pair[q].pc # "idle")
        => pair[q].pc = "done" /\ pair[q].ran = Nothing

\* C22: a direct simulate call on an adapter instance whose compile calls
\* all reported success:false spawns no process: it returns success:false,
\* passed:false with 'Design not compiled'.
C22_NoSimulationWithoutCompiledDesign ==
    \A p \in Pairs :
        (pair[p].direct /\ pair[p].pc # "idle" /\ AllCompilesFailedOn(pair[p].inst))
        => /\ pair[p].pc = "done"
           /\ result.arg = p => result = Returns("adapter.simulate", p, NotCompiled)

\* C27: every result of SimulationManager.simulate and of an adapter's
\* simulate has passed only together with success.
C27_PassedImpliesSuccess ==
    result.op \in {"simulate", "adapter.simulate"}
    => (result.value.passed => result.value.success)

\* C27 witness: a simulation that printed a pass marker exited with a
\* non-zero status and is reported passed:false.
C27_Witness ==
    /\ result.op \in {"simulate", "adapter.simulate"}
    /\ ~result.value.success
    /\ "stdout" \in DOMAIN result.value
    /\ AnyTest(PassPatterns, result.value.stdout)
    /\ ~AnyTest(FailPatterns, result.value.stdout)
    /\ ~result.value.passed

LspTypes == LspServers \cup {"none"}
LspFiles == {"top.sv", "alu.sv"}
DiagnosticLists == {<<>>, <<"warning">>}

\* What createXLSP(cwd) does, and what isInstalled() of its client does.
LspEnvironments ==
    [create : {"returns", "throws"}, probe : ProbeOutcomes]

\* Mutant: the try blocks are missing their catch: the first server whose
\* creation or probe throws ends the chain with 'none'.
RECURSIVE DetectFromUnguarded(_, _)
DetectFromUnguarded(env, i) ==
    IF i > Len(LspOrder)
    THEN [type |-> "none", created |-> <<>>, probed |-> <<>>]
    ELSE LET s == LspOrder[i] IN
         IF env[s].create = "throws"
         THEN [type |-> "none", created |-> <<s>>, probed |-> <<>>]
         ELSE IF env[s].probe = "installed"
         THEN [type |-> s, created |-> <<s>>, probed |-> <<s>>]
         ELSE IF env[s].probe = "throws"
         THEN [type |-> "none", created |-> <<s>>, probed |-> <<s>>]
         ELSE LET rest == DetectFromUnguarded(env, i + 1) IN
              [type |-> rest.type, created |-> <<s>> \o rest.created,
               probed |-> <<s>> \o rest.probed]

\* The try blocks of detectLSP from the i-th on: the type returned, the
\* servers a client was created for and the servers that were probed.
RECURSIVE DetectFrom(_, _)
DetectFrom(env, i) ==
    IF i > Len(LspOrder)
    THEN [type |-> "none", created |-> <<>>, probed |-> <<>>]
    ELSE LET s == LspOrder[i] IN
         IF env[s].create = "returns" /\ env[s].probe = "installed"
         THEN [type |-> s, created |-> <<s>>, probed |-> <<s>>]
         ELSE LET rest == DetectFrom(env, i + 1) IN
              [type |-> rest.type,
               created |-> <<s>> \o rest.created,
               probed |-> (IF env[s].create = "returns" THEN <<s>> ELSE <<>>)
                          \o rest.probed]

\* detectLSP()
detectLSP(env) == DetectFrom(env, 1)

\* A client of the given type, not started; nothing has been called on it.
NewClient(type) == [type |-> type, started |-> FALSE, used |-> "new"]

\* Mutant: finding no server is an error.
createLSPClientOrFail(env, type) ==
    LET lspType == IF Truthy(type) THEN type ELSE detectLSP(env).type IN
    IF lspType \in LspServers /\ env[lspType].create = "returns"
    THEN [thrown |-> FALSE, client |-> NewClient(lspType)]
    ELSE [thrown |-> TRUE, client |-> NoClient]

\* createLSPClient(workspaceRoot?, type?): the switch over the given or
\* detected type; the factories are not guarded here.
createLSPClient(env, type) ==
    LET lspType == IF Truthy(type) THEN type ELSE detectLSP(env).type IN
    IF lspType \in LspServers
    THEN IF env[lspType].create = "throws"
         THEN [thrown |-> TRUE, client |-> NoClient]
         ELSE [thrown |-> FALSE, client |-> NewClient(lspType)]
    ELSE [thrown |-> FALSE, client |-> NewClient("none")]

\* client.isInstalled(): NoOpLSP answers false, a server's client probes.
clientIsInstalled(c, env) ==
    IF c.type = "none" THEN Resolve([installed |-> FALSE])
    ELSE IF env[c.type].probe = "throws" THEN Raise(ProbeError)
    ELSE Resolve([installed |-> env[c.type].probe = "installed"])

\* client.getDiagnostics(file): NoOpLSP and SvlsLSP return [], the other
\* clients what they parsed from the tool's output.
clientGetDiagnostics(c, parsed) ==
    IF c.type \in {"none", "svls"} THEN <<>> ELSE parsed

\* ---- actions

DetectLSP ==
    /\ result' = Returns("detectLSP", Undefined, detectLSP(lspEnv))
    /\ UNCHANGED <<lspEnv, client>>
    /\ UNCHANGED <<managerVars, adapterVars, observed, simVars, hookVars>>

CreateLSPClient(type) ==
    /\ LET made == createLSPClient(lspEnv, type) IN
       IF made.thrown
       THEN /\ result' = Throws("createLSPClient", type, "factory failed")
            /\ UNCHANGED client
       ELSE /\ result' = Returns("createLSPClient", type, [type |-> made.client.type])
            /\ client' = made.client
    /\ UNCHANGED lspEnv
    /\ UNCHANGED <<managerVars, adapterVars, observed, simVars, hookVars>>

\* client.start() / client.stop(): NoOpLSP has no started flag.
Start ==
    /\ client.type # Undefined
    /\ client' = [client EXCEPT !.started = (client.type # "none"),
                                !.used = "started"]
    /\ result' = Returns("client.start", Undefined, [done |-> TRUE])
    /\ UNCHANGED lspEnv
    /\ UNCHANGED <<managerVars, adapterVars, observed, simVars, hookVars>>

Stop ==
    /\ client.type # Undefined
    /\ client' = [client EXCEPT !.started = FALSE, !.used = "stopped"]
    /\ result' = Returns("client.stop", Undefined, [done |-> TRUE])
    /\ UNCHANGED lspEnv
    /\ UNCHANGED <<managerVars, adapterVars, observed, simVars, hookVars>>

IsInstalled ==
    /\ client.type # Undefined
    /\ LET how == clientIsInstalled(client, lspEnv) IN
       result' = IF how.kind = "throws"
                 THEN Throws("client.isInstalled", Undefined, how.res.message)
                 ELSE Returns("client.isInstalled", Undefined, how.res)
    /\ UNCHANGED <<lspEnv, client>>
    /\ UNCHANGED <<managerVars, adapterVars, observed, simVars, hookVars>>

GetDiagnostics(file, parsed) ==
    /\ client.type # Undefined
    /\ result' = Returns("client.getDiagnostics", file,
                         [diagnostics |-> clientGetDiagnostics(client, parsed)])
    /\ UNCHANGED <<lspEnv, client>>
    /\ UNCHANGED <<managerVars, adapterVars, observed, simVars, hookVars>>

\* A server is installed or removed, or its factory or probe starts or
\* stops failing; the last outcome was about the environment it ran in.
LspEnvChange(s, e) ==
    /\ lspEnv[s] # e
    /\ lspEnv' = [lspEnv EXCEPT ![s] = e]
    /\ result' = Idle
    /\ UNCHANGED client
    /\ UNCHANGED <<managerVars, adapterVars, observed, simVars, hookVars>>

LspNext ==
    \/ DetectLSP
    \/ \E t \in LspTypes \cup {Undefined} : CreateLSPClient(t)
    \/ Start
    \/ Stop
    \/ IsInstalled
    \/ \E f \in LspFiles, d \in DiagnosticLists : GetDiagnostics(f, d)
    \/ \E s \in LspServers, e \in LspEnvironments : LspEnvChange(s, e)

LspInit == Init /\ category = "lint"

LspSpec == LspInit /\ [][LspNext]_vars

\* Positions in detectLSP's order of the servers that can be created and
\* whose probe answers true.
UsableServers ==
    {i \in DOMAIN LspOrder : /\ lspEnv[LspOrder[i]].create = "returns"
                             /\ lspEnv[LspOrder[i]].probe = "installed"}

\* C17: detectLSP never throws; it returns the first of slang, verible, svls
\* that can be created and whose probe answers true, having created and
\* probed no server after that one, and 'none' when there is no such server;
\* a server whose creation or probe throws counts as not installed.
C17_FirstInstalledServer ==
    result.op = "detectLSP"
    => /\ ~result.thrown
       /\ IF UsableServers = {}
          THEN result.value.type = "none"
          ELSE LET first == CHOOSE i \in UsableServers :
                                \A j \in UsableServers : i <= j IN
               /\ result.value.type = LspOrder[first]
               /\ \A j \in DOMAIN LspOrder :
                    j > first =>
                      /\ \A k \in DOMAIN result.value.probed :
                            result.value.probed[k] # LspOrder[j]
                      /\ \A k \in DOMAIN result.value.created :
                            result.value.created[k] # LspOrder[j]

\* C17 witness: creating the slang client throws, the verible probe throws,
\* svls is installed: 'svls' is returned.
C17_Witness ==
    /\ result.op = "detectLSP"
    /\ lspEnv["slang"].create = "throws"
    /\ lspEnv["verible"].create = "returns" /\ lspEnv["verible"].probe = "throws"
    /\ lspEnv["svls"].create = "returns" /\ lspEnv["svls"].probe = "installed"
    /\ result.value.type = "svls"

\* The selection of the last createLSPClient call was 'none': given as the
\* type, or detected because no server is usable.
SelectionWasNone ==
    /\ result.op = "createLSPClient"
    /\ \/ result.arg = "none"
       \/ ~Truthy(result.arg) /\ UsableServers = {}

\* C18: when the selection is 'none', createLSPClient does not throw and
\* returns the no-op client; that client answers isInstalled with false and
\* getDiagnostics with the empty list for every file, whether or not start
\* or stop have been called on it.
C18_NoneDegradesToNoOp ==
    /\ SelectionWasNone => ~result.thrown /\ client = NewClient("none")
    /\ client.type = "none" =>
         /\ ~client.started
         /\ result.op = "client.isInstalled"
              => ~result.thrown /\ result.value.installed = FALSE
         /\ result.op = "client.getDiagnostics"
              => ~result.thrown /\ result.value.diagnostics = <<>>

\* C18 witness: nothing is installed, the client was created by detection,
\* started and stopped, and getDiagnostics then returned the empty list.
C18_Witness ==
    /\ UsableServers = {}
    /\ client.type = "none" /\ client.used = "stopped"
    /\ result.op = "client.getDiagnostics"
    /\ result.value.diagnostics = <<>>

\* ------------------------------------------------- persistent-mode hook
\* hooks/persistent-mode/index.ts: on a Stop event the hook asks the Ralph
\* loop, ultrawork and the todo list, in that order, whether the stop is to
\* be blocked. The state files are read and written by ../ralph-loop,
\* ../ultrawork-state and ../todo-continuation.

\* How far the model follows a Ralph loop, how many todos it counts and how
\* many reinforcements of ultrawork it follows.
MaxIterations == 2
MaxTodos == 1
MaxReinforcements == 1

Sessions == {"s1", "s2"}

\* Ralph state files: state.active, state.session_id, state.iteration,
\* state.max_iterations.
RalphStates ==
    [file : {"present"}, active : BOOLEAN, session_id : {Undefined, "s1"},
     iteration : 0..MaxIterations, max_iterations : 1..MaxIterations]

\* Ultrawork state files: state.active, state.session_id,
\* state.reinforcement_count.
UltraworkStates ==
    [file : {"present"}, active : BOOLEAN, session_id : {Undefined, "s1"},
     reinforcement_count : {0}]

\* !state || !state.active
Inactive(state) == IF state = NoState THEN TRUE ELSE ~state.active

\* ralphResult?.shouldBlock
Blocks(r) == IF r = NullResult THEN FALSE ELSE r.shouldBlock

\* state.session_id && sessionId && state.session_id !== sessionId
OtherSession(state, sessionId) ==
    Truthy(state.session_id) /\ Truthy(sessionId) /\ state.session_id # sessionId

\* The results checkRalphLoop returns when it ends the loop.
RalphComplete ==
    [shouldBlock |-> FALSE, message |-> "[RALPH LOOP COMPLETE]", mode |-> "none"]
RalphStopped ==
    [shouldBlock |-> FALSE, message |-> "[RALPH LOOP STOPPED]", mode |-> "none"]

\* incrementRalphIteration: the state with one iteration more.
incrementRalphIteration(state) == [state EXCEPT !.iteration = @ + 1]

\* clearRalphState: the state file is removed.
clearRalphState(state) == NoState

\* The result of a blocking Ralph check.
RalphContinues(newState) ==
    [shouldBlock |-> TRUE, message |-> "<ralph-loop-continuation>",
     mode |-> "ralph-loop",
     metadata |-> [iteration |-> newState.iteration,
                   maxIterations |-> newState.max_iterations]]

\* Mutant: the loop is stopped only once the iteration exceeds the maximum.
checkRalphLoopOneMore(state, sessionId, completed, written) ==
    IF Inactive(state) THEN [ret |-> NullResult, state |-> state]
    ELSE IF OtherSession(state, sessionId) THEN [ret |-> NullResult, state |-> state]
    ELSE IF completed THEN [ret |-> RalphComplete, state |-> clearRalphState(state)]
    ELSE IF state.iteration > state.max_iterations
    THEN [ret |-> RalphStopped, state |-> clearRalphState(state)]
    ELSE IF ~written THEN [ret |-> NullResult, state |-> state]
    ELSE [ret |-> RalphContinues(incrementRalphIteration(state)),
          state |-> incrementRalphIteration(state)]

\* checkRalphLoop(sessionId, directory): what it returns and the state file
\* it leaves. completed is what detectCompletionPromise answers, written
\* whether incrementRalphIteration could write the file (it answers null
\* otherwise).
checkRalphLoop(state, sessionId, completed, written) ==
    IF Inactive(state) THEN [ret |-> NullResult, state |-> state]
    ELSE IF OtherSession(state, sessionId) THEN [ret |-> NullResult, state |-> state]
    ELSE IF completed THEN [ret |-> RalphComplete, state |-> clearRalphState(state)]
    ELSE IF state.iteration >= state.max_iterations
    THEN [ret |-> RalphStopped, state |-> clearRalphState(state)]
    ELSE IF ~written THEN [ret |-> NullResult, state |-> state]
    ELSE [ret |-> RalphContinues(incrementRalphIteration(state)),
          state |-> incrementRalphIteration(state)]

\* deactivateUltrawork: the state is marked inactive.
deactivateUltrawork(state) == [state EXCEPT !.active = FALSE]

\* incrementReinforcement: the state with one reinforcement more.
incrementReinforcement(state) == [state EXCEPT !.reinforcement_count = @ + 1]

UltraworkComplete ==
    [shouldBlock |-> FALSE, message |-> "[ULTRAWORK COMPLETE]", mode |-> "none"]

\* checkUltrawork(sessionId, directory, hasIncompleteTodos)
checkUltrawork(state, sessionId, hasIncompleteTodos, written) ==
    IF Inactive(state) THEN [ret |-> NullResult, state |-> state]
    ELSE IF OtherSession(state, sessionId) THEN [ret |-> NullResult, state |-> state]
    ELSE IF ~hasIncompleteTodos
    THEN [ret |-> UltraworkComplete, state |-> deactivateUltrawork(state)]
    ELSE IF ~written THEN [ret |-> NullResult, state |-> state]
    ELSE [ret |-> [shouldBlock |-> TRUE, message |-> "<ultrawork-persistence>",
                   mode |-> "ultrawork",
                   metadata |-> [reinforcementCount |->
                       incrementReinforcement(state).reinforcement_count]],
          state |-> incrementReinforcement(state)]

\* checkTodoContinuation(sessionId, directory)
checkTodoContinuation(count) ==
    IF count = 0 THEN NullResult
    ELSE [shouldBlock |-> TRUE, message |-> "<todo-continuation>",
          mode |-> "todo-continuation", metadata |-> [todoCount |-> count]]

\* "No blocking needed"
NoBlock == [shouldBlock |-> FALSE, message |-> "", mode |-> "none"]

\* One Stop event handled: what is returned, the state files afterwards and
\* what each check answered.
Handled(ret, r, u, rc, uc, count) ==
    [ret |-> ret, ralph |-> r, ultrawork |-> u,
     checks |-> [ralph |-> rc, ultrawork |-> uc, todoCount |-> count]]

\* Mutant: ultrawork is asked before the Ralph loop.
UltraworkBeforeRalph(r, u, count, sessionId, completed, rw, uw) ==
    LET ultraworkResult == checkUltrawork(u, sessionId, count > 0, uw)
        ralphResult == checkRalphLoop(r, sessionId, completed, rw) IN
    IF Blocks(ultraworkResult.ret)
    THEN Handled(ultraworkResult.ret, ralphResult.state, ultraworkResult.state,
                 ralphResult.ret, ultraworkResult.ret, count)
    ELSE IF Blocks(ralphResult.ret)
    THEN Handled(ralphResult.ret, ralphResult.state, ultraworkResult.state,
                 ralphResult.ret, ultraworkResult.ret, count)
    ELSE IF count > 0 /\ Blocks(checkTodoContinuation(count))
    THEN Handled(checkTodoContinuation(count), ralphResult.state,
                 ultraworkResult.state, ralphResult.ret, ultraworkResult.ret, count)
    ELSE Handled(NoBlock, ralphResult.state, ultraworkResult.state,
                 ralphResult.ret, ultraworkResult.ret, count)

\* checkPersistentModes(sessionId, directory) with Ralph state r, ultrawork
\* state u and count incomplete todos.
checkPersistentModes(r, u, count, sessionId, completed, rw, uw) ==
    LET hasIncompleteTodos == count > 0
        ralphResult == checkRalphLoop(r, sessionId, completed, rw)
        ultraworkResult == checkUltrawork(u, sessionId, hasIncompleteTodos, uw) IN
    IF Blocks(ralphResult.ret)
    THEN Handled(ralphResult.ret, ralphResult.state, u,
                 ralphResult.ret, NullResult, count)
    ELSE IF Blocks(ultraworkResult.ret)
    THEN Handled(ultraworkResult.ret, ralphResult.state, ultraworkResult.state,
                 ralphResult.ret, ultraworkResult.ret, count)
    ELSE IF hasIncompleteTodos /\ Blocks(checkTodoContinuation(count))
    THEN Handled(checkTodoContinuation(count), ralphResult.state,
                 ultraworkResult.state, ralphResult.ret, ultraworkResult.ret, count)
    ELSE Handled(NoBlock, ralphResult.state, ultraworkResult.state,
                 ralphResult.ret, ultraworkResult.ret, count)

\* createHookOutput(result)
createHookOutput(r) ==
    IF ~r.shouldBlock
    THEN [continue |-> TRUE, message |-> IF r.message = "" THEN Undefined ELSE r.message]
    ELSE [continue |-> FALSE, reason |-> r.message]

\* ---- actions

\* A Stop event of session sessionId is handled by checkPersistentModes.
StopEvent(sessionId, completed, rw, uw) ==
    /\ LET h == checkPersistentModes(ralph, ultrawork, todos, sessionId,
                                     completed, rw, uw) IN
       /\ IF h.ultrawork = NoState THEN TRUE
          ELSE h.ultrawork.reinforcement_count <= MaxReinforcements
       /\ ralph' = h.ralph
       /\ ultrawork' = h.ultrawork
       /\ checks' = h.checks
       /\ loop' = IF Blocks(h.checks.ralph)
                  THEN [loop EXCEPT !.blocks = @ + 1] ELSE loop
       /\ result' = Returns("checkPersistentModes", sessionId, h.ret)
    /\ UNCHANGED todos
    /\ UNCHANGED <<managerVars, adapterVars, observed, simVars, lspVars>>

\* A Ralph loop is started: its state file is written.
WriteRalphState(state) ==
    /\ ralph = NoState
    /\ ralph' = state
    /\ loop' = [start |-> state.iteration, max |-> state.max_iterations, blocks |-> 0]
    /\ checks' = NoChecks
    /\ result' = Idle
    /\ UNCHANGED <<ultrawork, todos>>
    /\ UNCHANGED <<managerVars, adapterVars, observed, simVars, lspVars>>

\* Ultrawork mode is switched on: its state file is written.
WriteUltraworkState(state) ==
    /\ Inactive(ultrawork)
    /\ ultrawork' = state
    /\ checks' = NoChecks
    /\ result' = Idle
    /\ UNCHANGED <<ralph, todos, loop>>
    /\ UNCHANGED <<managerVars, adapterVars, observed, simVars, lspVars>>

\* The todo list changes.
TodosChange(count) ==
    /\ count # todos
    /\ todos' = count
    /\ checks' = NoChecks
    /\ result' = Idle
    /\ UNCHANGED <<ralph, ultrawork, loop>>
    /\ UNCHANGED <<managerVars, adapterVars, observed, simVars, lspVars>>

HookNext ==
    \/ \E sessionId \in Sessions \cup {Undefined}, completed, rw, uw \in BOOLEAN :
         StopEvent(sessionId, completed, rw, uw)
    \/ \E state \in RalphStates : WriteRalphState(state)
    \/ \E state \in UltraworkStates : WriteUltraworkState(state)
    \/ \E count \in 0..MaxTodos : TodosChange(count)

HookInit == Init /\ category = "lint"

HookSpec == HookInit /\ [][HookNext]_vars

\* ---- claims about the hook

\* The last step handled a Stop event.
StopHandled == result.op = "checkPersistentModes"

\* The Ralph check of the last Stop event ended the loop.
RalphEnded == StopHandled /\ checks.ralph \in {RalphComplete, RalphStopped}

\* C28: checkPersistentModes applies the priority Ralph loop > ultrawork >
\* todo continuation: mode 'ralph-loop' whenever the Ralph check blocks,
\* 'ultrawork' only when Ralph does not block and ultrawork does,
\* 'todo-continuation' only when neither blocks and todos are incomplete,
\* otherwise shouldBlock:false, mode 'none'; shouldBlock is true exactly
\* when the mode is not 'none', and createHookOutput.continue is its negation.
C28_PriorityOfModes ==
    StopHandled
    => LET v == result.value IN
       /\ Blocks(checks.ralph) => v.mode = "ralph-loop"
       /\ v.mode = "ralph-loop" => Blocks(checks.ralph)
       /\ v.mode = "ultrawork" => ~Blocks(checks.ralph) /\ Blocks(checks.ultrawork)
       /\ v.mode = "todo-continuation"
            => /\ ~Blocks(checks.ralph)
               /\ ~Blocks(checks.ultrawork)
               /\ checks.todoCount > 0
       /\ v.mode \notin {"ralph-loop", "ultrawork", "todo-continuation"}
            => v = NoBlock
       /\ v.shouldBlock <=> v.mode # "none"
       /\ createHookOutput(v).continue = ~v.shouldBlock

\* C28 witness: ultrawork is active with todos pending and would block, and
\* the Stop event was blocked by the Ralph loop.
C28_Witness ==
    /\ StopHandled
    /\ result.value.mode = "ralph-loop"
    /\ ultrawork # NoState
    /\ ultrawork.active /\ ultrawork.session_id = Undefined
    /\ todos > 0

\* max_iterations minus the initial iteration, where that is positive.
BlocksAllowed == IF loop.max > loop.start THEN loop.max - loop.start ELSE 0

\* C29: the Ralph loop blocks at most max_iterations minus the initial
\* iteration Stop events: it blocks only below max_iterations and without a
\* completion promise, every block adds one to the iteration, and when it
\* ends the loop the state is cleared.
C29_RalphBlocksAreBounded ==
    /\ loop.blocks <= BlocksAllowed
    /\ ralph # NoState
         => /\ ralph.iteration = loop.start + loop.blocks
            /\ loop.max = ralph.max_iterations
    /\ StopHandled /\ Blocks(checks.ralph)
         => /\ ralph # NoState
            /\ ralph.iteration <= ralph.max_iterations
            /\ checks.ralph.metadata.iteration = ralph.iteration
    /\ RalphEnded => ralph = NoState

\* C29 witness: a loop that began at iteration 0 blocked max_iterations Stop
\* events, more than one, and the next Stop event stopped it.
C29_Witness ==
    /\ StopHandled
    /\ checks.ralph = RalphStopped
    /\ loop.start = 0
    /\ loop.blocks = loop.max
    /\ loop.blocks > 1

\* C30: when the Ralph check ends the loop on a Stop event, that Stop event
\* is allowed and the caller receives Ralph's message, whatever the
\* ultrawork state and the pending todos are.
C30_RalphEndIsReported ==
    RalphEnded
    => /\ result.value.shouldBlock = FALSE
       /\ result.value.message = checks.ralph.message
       /\ createHookOutput(result.value) =
              [continue |-> TRUE, message |-> checks.ralph.message]

====
